---- MODULE Spec2Model ----
(***************************************************************************)
(* Model of the evo-server tick engine (src/src/simulation/tick.rs), the   *)
(* simulation state and spatial index (src/src/simulation/mod.rs), the     *)
(* metabolism (src/src/creature/metabolism.rs), reproduction               *)
(* (src/src/creature/reproduction.rs) and the grid cell / world            *)
(* (src/src/world).                                                        *)
(*                                                                         *)
(* Energies, health and costs are f64 in the source; every configured      *)
(* value used here is a whole number, on which the f64 arithmetic of the   *)
(* source (+, -, min, max, ceil of x/20) is exact, so they are modelled as *)
(* integers.  The controller (neural network) is modelled by its set of    *)
(* possible outcomes: softmax gives every output index a positive          *)
(* probability, so decide_action may return any action.                    *)
(***************************************************************************)
EXTENDS Integers, Sequences, FiniteSets, TLC

VARIABLES
    config,             \* the Config the run was started with (never changes)
    world,              \* World.grid: cell -> CellType
    creatures,          \* SimulationState.creatures: id -> Creature
    creature_positions, \* SpatialIndex.cells: cell -> id or None
    attacks_last_tick,  \* victim id -> sequence of Direction
    recently_dead,      \* VecDeque<Creature>
    tick,
    next_creature_id,
    total_births,
    total_deaths,
    pc,                 \* position inside SimulationState::tick
    creature_ids,       \* the shuffled ids still to be processed in this tick
    action,             \* the action decided for the creature being processed
    new_creatures,      \* local Vec new_creatures of tick()
    attacks_this_tick,  \* local HashMap attacks_this_tick of tick()
    total_resurrected,  \* history: creatures created by the extinction failsafe
    inputs,             \* local inputs of tick(), entries 9..12: the attack sensors
    run_pc,             \* position of run_simulation (main.rs)
    tick_at_call,       \* value of tick when the running tick() call began
    since_log,          \* loop iterations since last_log was reset
    lock_writer,        \* RwLock<SimulationState>: the write guard is held
    lock_readers,       \* RwLock<SimulationState>: the tasks holding a read guard
    ws_pc,              \* position of handle_websocket (server/mod.rs)
    ws_state,           \* the clone handle_websocket got from get_state
    checkpoint_file,    \* what the latest checkpoint file was written from
    restart,            \* the task spawned by restart_handler
    nn_request,         \* a controller asked for: snapshot data or a genome
    brain,              \* what the request gave: nothing yet, an error, a network
    box_iter,           \* a BoundingBoxIter over creature_positions, if any
    box_args,           \* the arguments of the iter_box call that made it
    yielded             \* the items its next() has returned so far

vars == <<config, world, creatures, creature_positions, attacks_last_tick,
          recently_dead, tick, next_creature_id, total_births, total_deaths,
          pc, creature_ids, action, new_creatures, attacks_this_tick,
          total_resurrected, inputs, run_pc, tick_at_call, since_log,
          lock_writer, lock_readers, ws_pc, ws_state, checkpoint_file, restart,
          nn_request, brain, box_iter, box_args, yielded>>

\* The variables outside SimulationState: the run loop, the lock, the
\* websocket task, the checkpoint file and the restart task.
outer_vars == <<run_pc, tick_at_call, since_log, lock_writer, lock_readers,
                ws_pc, ws_state, checkpoint_file, restart>>

\* The construction of one controller (creature/neural_net.rs).
nn_vars == <<nn_request, brain>>

\* One bounding-box iteration over the spatial index (simulation/mod.rs).
iter_vars == <<box_iter, box_args, yielded>>

(***************************************************************************)
(* Bounds of the exploration.                                              *)
(***************************************************************************)
MaxTick == 3

\* The number of ticks already run when the long run is picked up.
LongRunStart == 99

\* The loop iterations after which last_log.elapsed() >= log_interval holds
\* at the latest (log_interval over the tick period, scaled down).
LogEvery == 2

\* The largest layer size and the largest weight vector length of the
\* controllers that are built.
MaxSize == 2
MaxWeights == 4

\* The largest creature id written into the spatial index directly.
MaxIndexId == 1

(***************************************************************************)
(* Program constants.                                                      *)
(***************************************************************************)
MaxHealth == 100
MeatEnergyDivisor == 20
RecentlyDeadCapacity == 100

None == -1

(***************************************************************************)
(* Configurations (config.rs).  Rates and multipliers that are fractions   *)
(* in the source are kept as numerator/denominator pairs.                  *)
(***************************************************************************)
MainConfig ==
    [ name |-> "main",
      width |-> 2, height |-> 2,
      initial_food_density_num |-> 1, initial_food_density_den |-> 1,
      food_regen_rate_num |-> 1, food_regen_rate_den |-> 1000,
      max_food_per_cell |-> 1,
      plant_decay_ticks |-> 2, meat_decay_ticks |-> 2,
      initial_population |-> 1, max_population |-> 3,
      initial_energy |-> 5, max_energy |-> 5,
      energy_per_food |-> 2,
      energy_cost_per_tick |-> 1,
      energy_cost_move |-> 1,
      energy_cost_sprint |-> 2,
      energy_cost_reproduce |-> 2,
      min_reproduce_energy |-> 1,
      reproduce_cooldown_ticks |-> 1,
      max_age_ticks |-> 3,
      energy_share_amount |-> 2,
      rest_energy_multiplier_num |-> 1, rest_energy_multiplier_den |-> 1,
      rest_healing_multiplier |-> 2,
      neural_net_inputs |-> 34,
      neural_net_outputs |-> 12,
      damage_per_attack |-> 50,
      damage_per_strong_attack |-> 100,
      health_regen_rate |-> 50,
      health_regen_energy_cost |-> 1 ]

\* Scenario 1 of the specification: the defaults of Config::default() with
\* initial_population = 1, initial_energy = 1, energy_cost_per_tick = 10 and
\* no food (density 0; round(4 * 0.001) = 0 cells regenerate per tick).
SoloConfig ==
    [ name |-> "solo",
      width |-> 2, height |-> 2,
      initial_food_density_num |-> 0, initial_food_density_den |-> 1,
      food_regen_rate_num |-> 1, food_regen_rate_den |-> 1000,
      max_food_per_cell |-> 10,
      plant_decay_ticks |-> 600, meat_decay_ticks |-> 300,
      initial_population |-> 1, max_population |-> 10000,
      initial_energy |-> 1, max_energy |-> 200,
      energy_per_food |-> 20,
      energy_cost_per_tick |-> 10,
      energy_cost_move |-> 1,
      energy_cost_sprint |-> 2,
      energy_cost_reproduce |-> 50,
      min_reproduce_energy |-> 100,
      reproduce_cooldown_ticks |-> 100,
      max_age_ticks |-> 10000,
      energy_share_amount |-> 20,
      rest_energy_multiplier_num |-> 1, rest_energy_multiplier_den |-> 2,
      rest_healing_multiplier |-> 2,
      neural_net_inputs |-> 34,
      neural_net_outputs |-> 12,
      damage_per_attack |-> 20,
      damage_per_strong_attack |-> 40,
      health_regen_rate |-> 2,
      health_regen_energy_cost |-> 2 ]

\* Two creatures on a 2x1 grid whose controllers have four outputs (the four
\* moves, or the Stay of the fall-through), whose initial energy pays for
\* one tick of upkeep and one move, and whose strikes kill: they act in one
\* tick and starve in the next.
PairConfig ==
    [ SoloConfig EXCEPT !.name = "pair", !.height = 1, !.initial_population = 2,
                        !.initial_energy = 12, !.neural_net_outputs = 4,
                        !.damage_per_attack = 100 ]

\* One creature on a 2x1 grid of plant food that dies of age in its first
\* upkeep with energy left, too little to pay for passive healing.
CorpseConfig ==
    [ SoloConfig EXCEPT !.name = "corpse", !.height = 1,
                        !.initial_food_density_num = 1, !.max_food_per_cell = 2,
                        !.initial_energy = 31, !.energy_cost_per_tick = 1,
                        !.max_age_ticks = 1, !.health_regen_energy_cost = 100 ]

\* No creature at all: the population is zero from the start and the
\* failsafe has nothing to resurrect.
EmptyConfig == [ SoloConfig EXCEPT !.name = "empty", !.initial_population = 0 ]

\* MainConfig on a 2x1 grid with two units of food per cell, one cell
\* regenerated per tick (round(2 * 0.5) = 1), meat that decays one tick
\* sooner than plants, and creatures that die of age in their second tick.
FoodConfig ==
    [ MainConfig EXCEPT !.name = "food", !.height = 1, !.max_food_per_cell = 2,
                        !.food_regen_rate_num = 1, !.food_regen_rate_den = 2,
                        !.meat_decay_ticks = 1, !.max_age_ticks = 2 ]

Configs == {MainConfig, SoloConfig, PairConfig, CorpseConfig}

\* PairConfig with all twelve outputs, energy for several ticks, a share
\* amount a creature can afford after its upkeep, moves and sprints that
\* cost nothing, and death of age in the third tick.
ShareConfig ==
    [ PairConfig EXCEPT !.name = "share", !.neural_net_outputs = 12,
                        !.initial_energy = 40, !.energy_share_amount = 5,
                        !.max_age_ticks = 3,
                        !.energy_cost_move = 0, !.energy_cost_sprint = 0 ]

\* The configurations energy sharing is followed in.
ShareConfigs == {ShareConfig}

\* CorpseConfig with one cell regenerated per tick (round(2 * 0.5) = 1):
\* every creature dies of age in its first upkeep and leaves two units of
\* meat.
RegenConfig ==
    [ CorpseConfig EXCEPT !.name = "regen",
                          !.food_regen_rate_num = 1, !.food_regen_rate_den = 2 ]

\* MainConfig on a 2x1 grid without food and with energy for two offspring:
\* the empty neighbour cell lets the creature reproduce from tick 1 on.
BreedConfig ==
    [ MainConfig EXCEPT !.name = "breed", !.height = 1,
                        !.initial_food_density_num = 0,
                        !.initial_energy = 9, !.max_energy = 9 ]

\* The configurations the food of the world is followed in.
FoodConfigs == {FoodConfig}

\* The configurations the process as a whole is run with.
RunConfigs == {SoloConfig, EmptyConfig}

(***************************************************************************)
(* Small helpers.                                                          *)
(***************************************************************************)
Min(a, b) == IF a <= b THEN a ELSE b
Max(a, b) == IF a >= b THEN a ELSE b

Range(s) == {s[i] : i \in 1..Len(s)}

\* All orders in which a set can be enumerated (HashMap iteration order,
\* SliceRandom::shuffle).
Orders(S) ==
    {s \in [1..Cardinality(S) -> S] : \A i, j \in 1..Cardinality(S) : i # j => s[i] # s[j]}

Cells(cfg) == (0..(cfg.width - 1)) \X (0..(cfg.height - 1))

(***************************************************************************)
(* Metabolism (creature/metabolism.rs).                                    *)
(***************************************************************************)
MetabolismNew(initial_energy, max_energy) ==
    [ energy |-> Min(initial_energy, max_energy),
      max_energy |-> max_energy,
      health |-> MaxHealth,
      max_health |-> MaxHealth ]

\* A liveness test that also asks for energy.
is_alive_with_energy(m) == m.health > 0 /\ m.energy > 0

is_alive(m) == m.health > 0

\* An affordability test that always passes.
can_afford_anything(m, cost) == TRUE

can_afford(m, cost) == m.energy >= cost

\* consume_energy with a failed debit that leaves the energy as it was.
consume_energy_keeps(m, amount) ==
    IF m.energy >= amount
    THEN [m EXCEPT !.energy = @ - amount]
    ELSE m

\* consume_energy with a successful debit taken twice.
consume_energy_twice(m, amount) ==
    IF m.energy >= amount
    THEN [m EXCEPT !.energy = Max(@ - 2 * amount, 0)]
    ELSE [m EXCEPT !.energy = 0]

consume_energy(m, amount) ==
    IF m.energy >= amount
    THEN [m EXCEPT !.energy = @ - amount]
    ELSE [m EXCEPT !.energy = 0]

\* gain_energy without the clamp to max_energy.
gain_energy_unclamped(m, amount) == [m EXCEPT !.energy = @ + amount]

gain_energy(m, amount) == [m EXCEPT !.energy = Min(@ + amount, m.max_energy)]

take_damage(m, amount) == [m EXCEPT !.health = Max(@ - amount, 0)]

heal(m, amount) == [m EXCEPT !.health = Min(@ + amount, m.max_health)]

passive_heal(m, healing_amount, energy_cost) ==
    IF m.health < m.max_health /\ m.energy >= energy_cost
    THEN consume_energy(heal(m, healing_amount), energy_cost)
    ELSE m

(***************************************************************************)
(* Grid cell (world/cell.rs).                                              *)
(***************************************************************************)
Empty == [kind |-> "Empty", amount |-> 0, is_meat |-> FALSE, age |-> 0]

Food(amount, is_meat, age) ==
    [kind |-> "Food", amount |-> amount, is_meat |-> is_meat, age |-> age]

is_empty(c) == c.kind = "Empty"
is_food(c) == c.kind = "Food"
food_amount(c) == IF is_food(c) THEN c.amount ELSE 0

\* add_food without the cap.
add_food_uncapped(c, amount, max, is_meat) ==
    IF is_food(c) /\ c.is_meat = is_meat
    THEN Food(c.amount + amount, c.is_meat, 0)
    ELSE Food(amount, is_meat, 0)

add_food(c, amount, max, is_meat) ==
    IF is_food(c)
    THEN IF c.is_meat # is_meat
         THEN Food(Min(amount, max), is_meat, 0)
         ELSE Food(Min(c.amount + amount, max), c.is_meat, 0)
    ELSE Food(Min(amount, max), is_meat, 0)

age_food(c) == IF is_food(c) THEN [c EXCEPT !.age = @ + 1] ELSE c

\* should_decay with a strict comparison.
should_decay_strict(c, plant_decay_ticks, meat_decay_ticks) ==
    /\ is_food(c)
    /\ IF c.is_meat THEN c.age > meat_decay_ticks ELSE c.age > plant_decay_ticks

should_decay(c, plant_decay_ticks, meat_decay_ticks) ==
    /\ is_food(c)
    /\ IF c.is_meat THEN c.age >= meat_decay_ticks ELSE c.age >= plant_decay_ticks

(***************************************************************************)
(* World (world/mod.rs, world/resources.rs).                               *)
(***************************************************************************)
InBounds(cfg, x, y) == x >= 0 /\ x < cfg.width /\ y >= 0 /\ y < cfg.height

\* World::neighbors: the in-bounds Moore neighbours.
neighbors(cfg, x, y) ==
    {c \in Cells(cfg) :
        /\ c # <<x, y>>
        /\ c[1] - x \in {-1, 0, 1}
        /\ c[2] - y \in {-1, 0, 1}}

\* World::empty_neighbors: Moore neighbours whose CELL is Empty (no food);
\* the creatures standing there are not consulted.
empty_neighbors(cfg, w, x, y) == {c \in neighbors(cfg, x, y) : is_empty(w[c])}

total_food(w) ==
    LET RECURSIVE Sum(_)
        Sum(S) == IF S = {} THEN 0
                  ELSE LET c == CHOOSE c \in S : TRUE
                       IN food_amount(w[c]) + Sum(S \ {c})
    IN Sum(DOMAIN w)

\* World::initialize_food: each cell independently gets plant food of an
\* amount in 1..max_per_cell when a draw from [0,1) is below the density.
InitialWorlds(cfg) ==
    {w \in [Cells(cfg) -> {Empty} \cup {Food(a, FALSE, 0) : a \in 1..cfg.max_food_per_cell}] :
        /\ cfg.initial_food_density_num <= 0 => \A c \in Cells(cfg) : is_empty(w[c])
        /\ cfg.initial_food_density_num >= cfg.initial_food_density_den
              => \A c \in Cells(cfg) : is_food(w[c])}

\* ((total_cells as f64) * rate).round() as usize
num_cells_to_regen(cfg) ==
    (2 * cfg.width * cfg.height * cfg.food_regen_rate_num + cfg.food_regen_rate_den)
        \div (2 * cfg.food_regen_rate_den)

\* World::regenerate_food applied to a sequence of drawn positions.
RECURSIVE RegenAt(_, _, _)
RegenAt(w, draws, max_per_cell) ==
    IF draws = <<>> THEN w
    ELSE RegenAt([w EXCEPT ![Head(draws)] = add_food(@, 1, max_per_cell, FALSE)],
                 Tail(draws), max_per_cell)

\* World::age_and_decay_food: every food cell ages by one and is emptied
\* when its age has reached the threshold of its kind.
age_and_decay_food(w, plant_decay_ticks, meat_decay_ticks) ==
    [c \in DOMAIN w |->
        IF should_decay(age_food(w[c]), plant_decay_ticks, meat_decay_ticks)
        THEN Empty
        ELSE age_food(w[c])]

(***************************************************************************)
(* Creature (creature/mod.rs, creature/reproduction.rs).                   *)
(***************************************************************************)
CreatureNew(id, x, y, genome, initial_energy, max_energy) ==
    [ id |-> id, x |-> x, y |-> y,
      genome |-> genome,
      metabolism |-> MetabolismNew(initial_energy, max_energy),
      last_reproduce_tick |-> 0,
      age |-> 0,
      offspring_count |-> 0 ]

\* Genome::random: generation 0 (the gene bytes only feed the controller).
GenomeRandom == [generation |-> 0]

\* Genome::from_parent: generation = parent.generation + 1.
GenomeFromParent(g) == [generation |-> g.generation + 1]

\* A test that ignores the cooldown.
can_reproduce_no_cooldown(c, min_energy, current_tick, cooldown) ==
    can_afford(c.metabolism, min_energy)

can_reproduce(c, min_energy, current_tick, cooldown) ==
    /\ can_afford(c.metabolism, min_energy)
    /\ (current_tick - c.last_reproduce_tick) >= cooldown

(***************************************************************************)
(* SimulationState (simulation/mod.rs).                                    *)
(***************************************************************************)
\* SimulationState::can_spawn_new_creature
can_spawn_new_creature(max_population) ==
    IF max_population = 0 THEN TRUE
    ELSE Cardinality(DOMAIN creatures) < max_population

\* SimulationState::creature_at
creature_at(x, y) ==
    IF InBounds(config, x, y) THEN creature_positions[<<x, y>>] ELSE None

\* The spatial indexes a loop "for (id, creature) in &creatures { set(x, y, id) }"
\* can build: where several creatures stand on one cell the last one visited
\* wins, and the HashMap iteration order is arbitrary.
RebuiltIndexes(cfg, cs) ==
    {idx \in [Cells(cfg) -> DOMAIN cs \cup {None}] :
        \A c \in Cells(cfg) :
            LET here == {i \in DOMAIN cs : <<cs[i].x, cs[i].y>> = c}
            IN IF here = {} THEN idx[c] = None ELSE idx[c] \in here}

\* SimulationState::apply_population_cap: the id sets that can survive.
CappedIdSets(ids, max_population) ==
    IF max_population = 0 \/ Cardinality(ids) <= max_population
    THEN {ids}
    ELSE {S \in SUBSET ids : Cardinality(S) = max_population}

\* No snapshot taken, no checkpoint written.
NoSnapshot == [tick |-> None, pc |-> "none", population |-> None, dead |-> None, pending |-> None]

\* main(): the lock is free, run_simulation is about to await its first
\* interval tick, no websocket is connected, nothing was requested.
InitOuter ==
    /\ run_pc = "sleep"
    /\ tick_at_call = None
    /\ since_log = 0
    /\ lock_writer = FALSE
    /\ lock_readers = {}
    /\ ws_pc = "closed"
    /\ ws_state = NoSnapshot
    /\ checkpoint_file = NoSnapshot
    /\ restart = "none"

\* vec![0.0; n], entries 9..12.
NoInputs == [k \in 9..12 |-> 0]

\* SimulationState::new
\* No controller has been asked for.
NoRequest ==
    [kind |-> "none",
     data |-> [input_size |-> 0, hidden_size |-> 0, output_size |-> 0,
               weights_ih |-> << >>, weights_ho |-> << >>]]

NoBrain == [kind |-> "none"]

InitBrain == nn_request = NoRequest /\ brain = NoBrain

\* No bounding-box iterator exists.
NoIter == [kind |-> "none", x |-> 0, y |-> 0, x_min |-> 0, x_max |-> 0, y_max |-> 0]

InitIter ==
    /\ box_iter = NoIter
    /\ box_args = [x_min |-> 0, y_min |-> 0, x_max |-> 0, y_max |-> 0]
    /\ yielded = << >>

InitSimulation(configs) ==
    /\ config \in configs
    /\ world \in InitialWorlds(config)
    /\ \E pos \in [0..(config.initial_population - 1) -> Cells(config)] :
       \E kept \in CappedIdSets(0..(config.initial_population - 1), config.max_population) :
          /\ creatures = [id \in kept |->
                CreatureNew(id, pos[id][1], pos[id][2], GenomeRandom,
                            config.initial_energy, config.max_energy)]
          /\ creature_positions \in RebuiltIndexes(config, creatures)
    /\ attacks_last_tick = << >>
    /\ recently_dead = << >>
    /\ tick = 0
    /\ next_creature_id = config.initial_population
    /\ total_births = 0
    /\ total_deaths = 0
    /\ pc = "idle"
    /\ creature_ids = << >>
    /\ action = "None"
    /\ new_creatures = << >>
    /\ attacks_this_tick = << >>
    /\ total_resurrected = 0
    /\ inputs = NoInputs
    /\ InitOuter

InitFrom(configs) == InitSimulation(configs) /\ InitBrain /\ InitIter

Init == InitFrom(Configs)


(***************************************************************************)
(* SimulationState::tick (simulation/tick.rs), one action per step.        *)
(***************************************************************************)
Moves == {"MoveUp", "MoveDown", "MoveLeft", "MoveRight"}
Sprints == {"SprintUp", "SprintDown", "SprintLeft", "SprintRight"}

\* Action::from_index
from_index(index) ==
    CASE index = 0 -> "MoveUp"
      [] index = 1 -> "MoveDown"
      [] index = 2 -> "MoveLeft"
      [] index = 3 -> "MoveRight"
      [] index = 4 -> "Attack"
      [] index = 5 -> "Reproduce"
      [] index = 6 -> "ShareEnergy"
      [] index = 7 -> "SprintUp"
      [] index = 8 -> "SprintDown"
      [] index = 9 -> "SprintLeft"
      [] index = 10 -> "SprintRight"
      [] index = 11 -> "Rest"
      [] OTHER -> "Stay"

\* Action::to_delta
to_delta(a) ==
    CASE a \in {"MoveUp", "SprintUp"} -> <<0, -1>>
      [] a \in {"MoveDown", "SprintDown"} -> <<0, 1>>
      [] a \in {"MoveLeft", "SprintLeft"} -> <<-1, 0>>
      [] a \in {"MoveRight", "SprintRight"} -> <<1, 0>>
      [] OTHER -> <<0, 0>>

\* NeuralNetwork::decide_action: the index of any output, or the Stay
\* returned when the cumulative probability never exceeds the draw.
DecidableActions(cfg) ==
    {from_index(i) : i \in 0..(cfg.neural_net_outputs - 1)} \cup {"Stay"}

\* The creature being processed by the loop of tick().
cur == Head(creature_ids)

\* tick(): food regeneration (World::regenerate_food).
RegenerateFood ==
    /\ pc = "idle"
    /\ (tick < MaxTick \/ (LongRunStart <= tick /\ tick < LongRunStart + MaxTick))
    /\ \E draws \in [1..num_cells_to_regen(config) -> Cells(config)] :
          world' = RegenAt(world, draws, config.max_food_per_cell)
    /\ pc' = "decay"
    /\ UNCHANGED <<config, creatures, creature_positions, attacks_last_tick,
                   recently_dead, tick, next_creature_id, total_births,
                   total_deaths, creature_ids, action, new_creatures,
                   attacks_this_tick, total_resurrected,
                   inputs, outer_vars, nn_vars, iter_vars>>

\* tick(): food aging and decay.
AgeAndDecayFood ==
    /\ pc = "decay"
    /\ world' = age_and_decay_food(world, config.plant_decay_ticks, config.meat_decay_ticks)
    /\ pc' = "shuffle"
    /\ UNCHANGED <<config, creatures, creature_positions, attacks_last_tick,
                   recently_dead, tick, next_creature_id, total_births,
                   total_deaths, creature_ids, action, new_creatures,
                   attacks_this_tick, total_resurrected,
                   inputs, outer_vars, nn_vars, iter_vars>>

\* tick(): snapshot of the ids, shuffled; fresh new_creatures and
\* attacks_this_tick.
Shuffle ==
    /\ pc = "shuffle"
    /\ creature_ids' \in Orders(DOMAIN creatures)
    /\ new_creatures' = << >>
    /\ attacks_this_tick' = << >>
    /\ pc' = "loop"
    /\ UNCHANGED <<config, world, creatures, creature_positions,
                   attacks_last_tick, recently_dead, tick, next_creature_id,
                   total_births, total_deaths, action, total_resurrected,
                   inputs, outer_vars, nn_vars, iter_vars>>

\* The Direction that sets input k: 9 Up, 10 Down, 11 Left, 12 Right.
InputDirection(k) ==
    CASE k = 9 -> "Up" [] k = 10 -> "Down" [] k = 11 -> "Left" [] k = 12 -> "Right"

\* Inputs 9..12 as the loop over the attack directions of creature_id in
\* the map m sets them.
attacked_inputs(m, creature_id, cfg) ==
    [k \in 9..12 |->
        IF /\ creature_id \in DOMAIN m
           /\ InputDirection(k) \in Range(m[creature_id])
           /\ cfg.neural_net_inputs > k
        THEN 1 ELSE 0]

\* Sensors that read the map being filled in the current tick.
get_sensor_inputs_this_tick(creature_id, cfg) ==
    attacked_inputs(attacks_this_tick, creature_id, cfg)

\* get_sensor_inputs, inputs 9..12: read from self.attacks_last_tick.
get_sensor_inputs(creature_id, cfg) ==
    attacked_inputs(attacks_last_tick, creature_id, cfg)

\* The per-creature upkeep of tick(): age, age death, energy cost,
\* starvation, passive healing.
UpkeepOf(c, cfg) ==
    LET aged == [c EXCEPT !.age = @ + 1]
        m1 == IF aged.age >= cfg.max_age_ticks
              THEN take_damage(aged.metabolism, aged.metabolism.health)
              ELSE aged.metabolism
        m2 == consume_energy(m1, cfg.energy_cost_per_tick)
        m3 == IF m2.energy <= 0 THEN take_damage(m2, m2.health) ELSE m2
        m4 == passive_heal(m3, cfg.health_regen_rate, cfg.health_regen_energy_cost)
    IN [aged EXCEPT !.metabolism = m4]

\* tick(): upkeep of the next creature, then "continue" when it is not
\* alive (or is gone), else the controller decides its action.
Upkeep ==
    /\ pc = "loop"
    /\ creature_ids # << >>
    /\ IF cur \in DOMAIN creatures
       THEN LET c == UpkeepOf(creatures[cur], config)
            IN /\ creatures' = [creatures EXCEPT ![cur] = c]
               /\ IF is_alive(c.metabolism)
                  THEN /\ inputs' = get_sensor_inputs(cur, config)
                       /\ action' \in DecidableActions(config)
                       /\ pc' = "dispatch"
                       /\ UNCHANGED creature_ids
                  ELSE /\ creature_ids' = Tail(creature_ids)
                       /\ UNCHANGED <<action, pc, inputs, outer_vars, nn_vars, iter_vars>>
       ELSE /\ creature_ids' = Tail(creature_ids)
            /\ UNCHANGED <<creatures, action, pc, inputs, outer_vars, nn_vars, iter_vars>>
    /\ UNCHANGED <<config, world, creature_positions, attacks_last_tick,
                   recently_dead, tick, next_creature_id, total_births,
                   total_deaths, new_creatures, attacks_this_tick,
                   total_resurrected, outer_vars, nn_vars, iter_vars>>

\* try_eat that feeds the creature and leaves the food in the cell.
try_eat_leaves_food(cs, w, id, cfg) ==
    IF id \in DOMAIN cs /\ is_food(w[<<cs[id].x, cs[id].y>>])
    THEN <<[cs EXCEPT ![id].metabolism =
                gain_energy(@, w[<<cs[id].x, cs[id].y>>].amount * cfg.energy_per_food)],
           w>>
    ELSE <<cs, w>>

\* try_eat: the pair <<creatures, world>> after creature id tried to eat.
try_eat(cs, w, id, cfg) ==
    IF id \in DOMAIN cs
    THEN LET pos == <<cs[id].x, cs[id].y>>
         IN IF is_food(w[pos])
            THEN <<[cs EXCEPT ![id].metabolism =
                        gain_energy(@, w[pos].amount * cfg.energy_per_food)],
                   [w EXCEPT ![pos] = Empty]>>
            ELSE <<cs, w>>
    ELSE <<cs, w>>

\* attacks_this_tick.entry(victim).or_insert_with(Vec::new).push(dir)
RecordAttack(m, victim, dir) ==
    IF victim \in DOMAIN m
    THEN [m EXCEPT ![victim] = Append(@, dir)]
    ELSE m @@ (victim :> <<dir>>)

\* Action::Stay
Stay ==
    /\ pc = "dispatch"
    /\ action = "Stay"
    /\ LET r == try_eat(creatures, world, cur, config)
       IN creatures' = r[1] /\ world' = r[2]
    /\ pc' = "reproduce_check"
    /\ UNCHANGED <<config, creature_positions, attacks_last_tick,
                   recently_dead, tick, next_creature_id, total_births,
                   total_deaths, creature_ids, action, new_creatures,
                   attacks_this_tick, total_resurrected,
                   inputs, outer_vars, nn_vars, iter_vars>>

\* The clamped target of a move from (x, y).
MoveTarget(cfg, x, y, a) ==
    <<Min(Max(x + to_delta(a)[1], 0), cfg.width - 1),
      Min(Max(y + to_delta(a)[2], 0), cfg.height - 1)>>

\* The direction recorded against the victim of a move.
attack_dir(a) ==
    CASE a \in {"MoveUp", "SprintUp"} -> "Down"
      [] a \in {"MoveDown", "SprintDown"} -> "Up"
      [] a \in {"MoveLeft", "SprintLeft"} -> "Right"
      [] a \in {"MoveRight", "SprintRight"} -> "Left"

\* handle_move_action
handle_move_action(id, x, y, a, energy_cost) ==
    LET target == MoveTarget(config, x, y, a)
        target_creature_id == creature_at(target[1], target[2])
        has_energy == creatures[id].metabolism.energy >= energy_cost
        paid == [creatures EXCEPT ![id].metabolism = consume_energy(@, energy_cost)]
    IN IF ~has_energy
       THEN /\ creatures' = paid
            /\ UNCHANGED <<world, creature_positions, attacks_this_tick>>
       ELSE IF target_creature_id # None
       THEN IF target_creature_id \in DOMAIN paid
            THEN /\ creatures' = [paid EXCEPT ![target_creature_id].metabolism =
                                      take_damage(@, config.damage_per_attack)]
                 /\ attacks_this_tick' =
                        RecordAttack(attacks_this_tick, target_creature_id, attack_dir(a))
                 /\ UNCHANGED <<world, creature_positions>>
            ELSE /\ creatures' = paid
                 /\ UNCHANGED <<world, creature_positions, attacks_this_tick>>
       ELSE LET moved == [paid EXCEPT ![id].x = target[1], ![id].y = target[2]]
                r == try_eat(moved, world, id, config)
            IN /\ creature_positions' =
                    [[creature_positions EXCEPT ![<<x, y>>] = None] EXCEPT ![target] = id]
               /\ creatures' = r[1]
               /\ world' = r[2]
               /\ UNCHANGED attacks_this_tick

\* Action::MoveUp | MoveDown | MoveLeft | MoveRight
Move ==
    /\ pc = "dispatch"
    /\ action \in Moves
    /\ handle_move_action(cur, creatures[cur].x, creatures[cur].y, action,
                          config.energy_cost_move)
    /\ pc' = "reproduce_check"
    /\ UNCHANGED <<config, attacks_last_tick, recently_dead, tick,
                   next_creature_id, total_births, total_deaths, creature_ids,
                   action, new_creatures, total_resurrected,
                   inputs, outer_vars, nn_vars, iter_vars>>

\* Action::SprintUp | SprintDown | SprintLeft | SprintRight
Sprint ==
    /\ pc = "dispatch"
    /\ action \in Sprints
    /\ handle_move_action(cur, creatures[cur].x, creatures[cur].y, action,
                          config.energy_cost_sprint)
    /\ pc' = "reproduce_check"
    /\ UNCHANGED <<config, attacks_last_tick, recently_dead, tick,
                   next_creature_id, total_births, total_deaths, creature_ids,
                   action, new_creatures, total_resurrected,
                   inputs, outer_vars, nn_vars, iter_vars>>


\* The four von Neumann neighbours visited by handle_attack_action with the
\* direction recorded against a victim found there; wrapping_sub(1) on 0
\* yields a coordinate that is out of bounds.
AttackAdjacent(x, y) ==
    << <<x, y - 1, "Down">>, <<x, y + 1, "Up">>,
       <<x - 1, y, "Right">>, <<x + 1, y, "Left">> >>

\* The loop of handle_attack_action over the adjacent cells, as the pair
\* <<creatures, attacks_this_tick>> it leaves.
RECURSIVE AttackLoop(_, _, _)
AttackLoop(cs, atk, adjacent) ==
    IF adjacent = << >> THEN <<cs, atk>>
    ELSE LET n == Head(adjacent)
             target_id == creature_at(n[1], n[2])
         IN IF target_id # None /\ target_id \in DOMAIN cs
            THEN AttackLoop(
                    [cs EXCEPT ![target_id].metabolism =
                        take_damage(@, config.damage_per_strong_attack)],
                    RecordAttack(atk, target_id, n[3]),
                    Tail(adjacent))
            ELSE AttackLoop(cs, atk, Tail(adjacent))

\* Action::Attack (handle_attack_action)
Attack ==
    /\ pc = "dispatch"
    /\ action = "Attack"
    /\ LET r == AttackLoop(creatures, attacks_this_tick,
                           AttackAdjacent(creatures[cur].x, creatures[cur].y))
       IN creatures' = r[1] /\ attacks_this_tick' = r[2]
    /\ pc' = "reproduce_check"
    /\ UNCHANGED <<config, world, creature_positions, attacks_last_tick,
                   recently_dead, tick, next_creature_id, total_births,
                   total_deaths, creature_ids, action, new_creatures,
                   total_resurrected,
                   inputs, outer_vars, nn_vars, iter_vars>>

\* Creature::reproduce, for a parent that can afford the cost: the parent
\* after the call.
reproduce_parent(c, energy_cost, current_tick) ==
    [c EXCEPT !.metabolism = consume_energy(@, energy_cost),
              !.last_reproduce_tick = current_tick]

\* An offspring that takes the id of its parent.
reproduce_offspring_parent_id(c, offspring_id, target, cfg) ==
    CreatureNew(c.id, target[1], target[2], GenomeFromParent(c.genome),
                cfg.initial_energy, cfg.max_energy)

\* Creature::reproduce: the offspring.
reproduce_offspring(c, offspring_id, target, cfg) ==
    CreatureNew(offspring_id, target[1], target[2], GenomeFromParent(c.genome),
                cfg.initial_energy, cfg.max_energy)

\* find_empty_neighbor: the cells it can return.
find_empty_neighbor(x, y) == empty_neighbors(config, world, x, y)

\* The reproduction attempt made for creature id, both by
\* handle_reproduce_action (which increments the parent's offspring_count)
\* and by the check that follows every action in tick() (which does not).
TryReproduce(id, increments_offspring) ==
    IF /\ id \in DOMAIN creatures
       /\ is_alive(creatures[id].metabolism)
       /\ can_reproduce(creatures[id], config.min_reproduce_energy, tick,
                        config.reproduce_cooldown_ticks)
       /\ can_spawn_new_creature(config.max_population)
       /\ find_empty_neighbor(creatures[id].x, creatures[id].y) # {}
       /\ can_afford(creatures[id].metabolism, config.energy_cost_reproduce)
    THEN \E target_pos \in find_empty_neighbor(creatures[id].x, creatures[id].y) :
            LET parent == reproduce_parent(creatures[id], config.energy_cost_reproduce, tick)
                offspring == reproduce_offspring(creatures[id], next_creature_id,
                                                 target_pos, config)
            IN /\ creatures' = [creatures EXCEPT ![id] =
                    IF increments_offspring
                    THEN [parent EXCEPT !.offspring_count = @ + 1]
                    ELSE parent]
               /\ new_creatures' = Append(new_creatures, offspring)
               /\ next_creature_id' = next_creature_id + 1
               /\ total_births' = total_births + 1
    ELSE UNCHANGED <<creatures, new_creatures, next_creature_id, total_births>>

\* Action::Reproduce (handle_reproduce_action)
Reproduce ==
    /\ pc = "dispatch"
    /\ action = "Reproduce"
    /\ TryReproduce(cur, TRUE)
    /\ pc' = "reproduce_check"
    /\ UNCHANGED <<config, world, creature_positions, attacks_last_tick,
                   recently_dead, tick, total_deaths, creature_ids, action,
                   attacks_this_tick, total_resurrected,
                   inputs, outer_vars, nn_vars, iter_vars>>

\* The positions visited by handle_share_energy_action: Up, Down, Left, Right.
ShareAdjacent(x, y) == << <<x, y - 1>>, <<x, y + 1>>, <<x - 1, y>>, <<x + 1, y>> >>

\* The first adjacent position holding a creature other than id, or 0.
FirstReceiver(id, adjacent) ==
    LET hits == {i \in 1..Len(adjacent) :
                    /\ creature_at(adjacent[i][1], adjacent[i][2]) # None
                    /\ creature_at(adjacent[i][1], adjacent[i][2]) # id}
    IN IF hits = {} THEN 0 ELSE CHOOSE i \in hits : \A j \in hits : i <= j

\* handle_share_energy_action: creatures after the call.
handle_share_energy_action(cs, id, x, y, cfg) ==
    LET share_amount == cfg.energy_share_amount
        adjacent == ShareAdjacent(x, y)
        k == FirstReceiver(id, adjacent)
    IN IF ~(cs[id].metabolism.energy >= share_amount) \/ k = 0
       THEN cs
       ELSE LET receiver_id == creature_at(adjacent[k][1], adjacent[k][2])
                given == [cs EXCEPT ![id].metabolism = consume_energy(@, share_amount)]
            IN IF receiver_id \in DOMAIN given
               THEN [given EXCEPT ![receiver_id].metabolism = gain_energy(@, share_amount)]
               ELSE given

\* Action::ShareEnergy
ShareEnergy ==
    /\ pc = "dispatch"
    /\ action = "ShareEnergy"
    /\ creatures' = handle_share_energy_action(creatures, cur, creatures[cur].x,
                                               creatures[cur].y, config)
    /\ pc' = "reproduce_check"
    /\ UNCHANGED <<config, world, creature_positions, attacks_last_tick,
                   recently_dead, tick, next_creature_id, total_births,
                   total_deaths, creature_ids, action, new_creatures,
                   attacks_this_tick, total_resurrected,
                   inputs, outer_vars, nn_vars, iter_vars>>

\* Action::Rest (handle_rest_action)
Rest ==
    /\ pc = "dispatch"
    /\ action = "Rest"
    /\ LET boosted_regen == config.health_regen_rate * config.rest_healing_multiplier
           energy_cost == (config.health_regen_energy_cost * config.rest_energy_multiplier_num)
                              \div config.rest_energy_multiplier_den
           rested == [creatures EXCEPT ![cur].metabolism =
                          passive_heal(@, boosted_regen, energy_cost)]
           r == try_eat(rested, world, cur, config)
       IN creatures' = r[1] /\ world' = r[2]
    /\ pc' = "reproduce_check"
    /\ UNCHANGED <<config, creature_positions, attacks_last_tick,
                   recently_dead, tick, next_creature_id, total_births,
                   total_deaths, creature_ids, action, new_creatures,
                   attacks_this_tick, total_resurrected,
                   inputs, outer_vars, nn_vars, iter_vars>>

\* tick(): the reproduction check that follows the action of every creature.
ReproduceCheck ==
    /\ pc = "reproduce_check"
    /\ TryReproduce(cur, FALSE)
    /\ creature_ids' = Tail(creature_ids)
    /\ action' = "None"
    /\ inputs' = NoInputs
    /\ pc' = "loop"
    /\ UNCHANGED <<config, world, creature_positions, attacks_last_tick,
                   recently_dead, tick, total_deaths, attacks_this_tick,
                   total_resurrected, outer_vars, nn_vars, iter_vars>>

\* The loop "for creature in new_creatures" of tick(), as the pair
\* <<creatures, creature_positions>> it leaves.
RECURSIVE CommitLoop(_, _, _)
CommitLoop(cs, idx, pending) ==
    IF pending = << >> THEN <<cs, idx>>
    ELSE LET c == Head(pending)
         IN CommitLoop(IF c.id \in DOMAIN cs
                       THEN [cs EXCEPT ![c.id] = c]
                       ELSE cs @@ (c.id :> c),
                       [idx EXCEPT ![<<c.x, c.y>>] = c.id],
                       Tail(pending))

\* tick(): add new creatures and update the spatial index.
CommitBirths ==
    /\ pc = "loop"
    /\ creature_ids = << >>
    /\ LET r == CommitLoop(creatures, creature_positions, new_creatures)
       IN creatures' = r[1] /\ creature_positions' = r[2]
    /\ new_creatures' = << >>
    /\ pc' = "deaths"
    /\ UNCHANGED <<config, world, attacks_last_tick, recently_dead, tick,
                   next_creature_id, total_births, total_deaths, creature_ids,
                   action, attacks_this_tick, total_resurrected,
                   inputs, outer_vars, nn_vars, iter_vars>>


\* (remaining_energy / 20.0) as u32, without the ceil.
meat_amount_floor(remaining_energy) == remaining_energy \div MeatEnergyDivisor

\* (remaining_energy / 20.0).ceil() as u32
meat_amount(remaining_energy) ==
    (remaining_energy + MeatEnergyDivisor - 1) \div MeatEnergyDivisor

\* The ids of the creatures that are not alive.
DeadIds(cs) == {id \in DOMAIN cs : ~is_alive(cs[id].metabolism)}

\* A death loop that leaves the dead creatures' index entries in place.
RECURSIVE MeatLoop_keeps_index(_, _, _, _)
MeatLoop_keeps_index(w, idx, cs, dead) ==
    IF dead = << >> THEN <<w, idx>>
    ELSE LET c == cs[Head(dead)]
             pos == <<c.x, c.y>>
             amount == meat_amount(c.metabolism.energy)
         IN MeatLoop_keeps_index(
                IF amount > 0
                THEN [w EXCEPT ![pos] = add_food(@, amount, config.max_food_per_cell, TRUE)]
                ELSE w,
                idx, cs, Tail(dead))

\* The loop "for (_dead_id, x, y, remaining_energy) in dead_creatures" of
\* tick(), as the pair <<world, creature_positions>> it leaves.
RECURSIVE MeatLoop(_, _, _, _)
MeatLoop(w, idx, cs, dead) ==
    IF dead = << >> THEN <<w, idx>>
    ELSE LET c == cs[Head(dead)]
             pos == <<c.x, c.y>>
             amount == meat_amount(c.metabolism.energy)
         IN MeatLoop(IF amount > 0
                     THEN [w EXCEPT ![pos] = add_food(@, amount, config.max_food_per_cell, TRUE)]
                     ELSE w,
                     [idx EXCEPT ![pos] = None],
                     cs, Tail(dead))

\* A buffer that never evicts.
PushDead_unbounded(fifo, cs, dead) == fifo \o [i \in 1..Len(dead) |-> cs[dead[i]]]

\* A buffer that is never pushed to.
PushDead_none(fifo, cs, dead) == fifo

\* The loop "for creature in self.creatures.values()" of tick() that pushes
\* the dying creatures, in map order, and evicts from the front.
RECURSIVE PushDead(_, _, _)
PushDead(fifo, cs, dead) ==
    IF dead = << >> THEN fifo
    ELSE LET pushed == Append(fifo, cs[Head(dead)])
         IN PushDead(IF Len(pushed) > RecentlyDeadCapacity THEN Tail(pushed) ELSE pushed,
                     cs, Tail(dead))

\* A death count that counts every dead creature twice.
deaths_counted_twice(cs) == 2 * Cardinality(DeadIds(cs))

\* self.creatures.values().filter(|c| !c.is_alive()).count()
deaths_this_tick(cs) == Cardinality(DeadIds(cs))

\* tick(): handle deaths (meat, spatial index), save the dying creatures in
\* recently_dead, count and remove them.
MaterializeDeaths ==
    /\ pc = "deaths"
    /\ \E dead \in Orders(DeadIds(creatures)) :
          LET r == MeatLoop(world, creature_positions, creatures, dead)
          IN /\ world' = r[1]
             /\ creature_positions' = r[2]
             /\ recently_dead' = PushDead(recently_dead, creatures, dead)
    /\ total_deaths' = total_deaths + deaths_this_tick(creatures)
    /\ creatures' = [id \in DOMAIN creatures \ DeadIds(creatures) |-> creatures[id]]
    /\ pc' = "failsafe"
    /\ UNCHANGED <<config, attacks_last_tick, tick, next_creature_id,
                   total_births, creature_ids, action, new_creatures,
                   attacks_this_tick, total_resurrected,
                   inputs, outer_vars, nn_vars, iter_vars>>

\* The cells the failsafe can settle on for one resurrected creature: a
\* draw is redrawn while it is occupied, at most 10 times, and the last
\* redraw is accepted unchecked; so an unoccupied cell can always result,
\* and any cell can result when every checked draw hit an occupied cell.
ResurrectPositions(cfg, idx) ==
    {c \in Cells(cfg) : idx[c] = None}
        \cup (IF \E c \in Cells(cfg) : idx[c] # None THEN Cells(cfg) ELSE {})

\* The loop "for i in 0..num_to_resurrect" of tick(): the pairs
\* <<creatures, creature_positions>> it can leave, from step i on.
RECURSIVE ResurrectLoop(_, _, _, _)
ResurrectLoop(cs, idx, i, n) ==
    IF i >= n THEN {<<cs, idx>>}
    ELSE LET dead_creature == recently_dead[Len(recently_dead) - i]
             new_id == next_creature_id + i
         IN UNION {
              ResurrectLoop(
                  (IF new_id \in DOMAIN cs THEN [j \in DOMAIN cs \ {new_id} |-> cs[j]] ELSE cs)
                      @@ (new_id :> CreatureNew(new_id, p[1], p[2], dead_creature.genome,
                                               config.initial_energy, config.max_energy)),
                  [idx EXCEPT ![p] = new_id],
                  i + 1, n)
              : p \in ResurrectPositions(config, idx)}

\* A failsafe that resurrects nobody.
num_to_resurrect_nobody(cfg, fifo) == 0

\* A failsafe that resurrects every corpse of the buffer.
num_to_resurrect_all(cfg, fifo) == Len(fifo)

\* config.creature.initial_population.min(self.recently_dead.len())
num_to_resurrect(cfg, fifo) == Min(cfg.initial_population, Len(fifo))

\* tick(): extinction failsafe.
ExtinctionFailsafe ==
    /\ pc = "failsafe"
    /\ IF DOMAIN creatures = {} /\ recently_dead # << >>
       THEN LET n == num_to_resurrect(config, recently_dead)
            IN /\ \E r \in ResurrectLoop(creatures, creature_positions, 0, n) :
                     creatures' = r[1] /\ creature_positions' = r[2]
               /\ next_creature_id' = next_creature_id + n
               /\ total_resurrected' = total_resurrected + n
       ELSE UNCHANGED <<creatures, creature_positions, next_creature_id, total_resurrected>>
    /\ pc' = "rotate"
    /\ UNCHANGED <<config, world, attacks_last_tick, recently_dead, tick,
                   total_births, total_deaths, creature_ids, action,
                   new_creatures, attacks_this_tick, inputs, outer_vars, nn_vars, iter_vars>>

\* tick(): store the attacks for the next tick's sensors, advance the tick.
RotateAttackMap ==
    /\ pc = "rotate"
    /\ attacks_last_tick' = attacks_this_tick
    /\ attacks_this_tick' = << >>
    /\ tick' = tick + 1
    /\ pc' = "idle"
    /\ UNCHANGED <<config, world, creatures, creature_positions, recently_dead,
                   next_creature_id, total_births, total_deaths, creature_ids,
                   action, new_creatures, total_resurrected,
                   inputs, outer_vars, nn_vars, iter_vars>>

Next ==
    \/ RegenerateFood
    \/ AgeAndDecayFood
    \/ Shuffle
    \/ Upkeep
    \/ Stay
    \/ Move
    \/ Sprint
    \/ Attack
    \/ Reproduce
    \/ ShareEnergy
    \/ Rest
    \/ ReproduceCheck
    \/ CommitBirths
    \/ MaterializeDeaths
    \/ ExtinctionFailsafe
    \/ RotateAttackMap

Spec == Init /\ [][Next]_vars

\* The corpse number id of the run under SoloConfig: a new creature after
\* the one upkeep it starves in.
LongRunCorpse(id, p) ==
    UpkeepOf(CreatureNew(id, p[1], p[2], GenomeRandom,
                         SoloConfig.initial_energy, SoloConfig.max_energy), SoloConfig)

\* States of the run under SoloConfig after LongRunStart ticks: every tick
\* the one creature starved, was pushed to recently_dead and was resurrected
\* under the next id. (Those with all the corpses on one cell.)
InitLongRun ==
    /\ config = SoloConfig
    /\ world \in InitialWorlds(config)
    /\ \E p \in Cells(config), q \in Cells(config) :
          LET kept == Min(LongRunStart, RecentlyDeadCapacity)
          IN /\ recently_dead =
                   [i \in 1..kept |-> LongRunCorpse(LongRunStart - kept + i - 1, p)]
             /\ creatures = (LongRunStart :>
                   CreatureNew(LongRunStart, q[1], q[2], GenomeRandom,
                               config.initial_energy, config.max_energy))
             /\ creature_positions =
                   [c \in Cells(config) |-> IF c = q THEN LongRunStart ELSE None]
    /\ attacks_last_tick = << >>
    /\ tick = LongRunStart
    /\ next_creature_id = LongRunStart + 1
    /\ total_births = 0
    /\ total_deaths = LongRunStart
    /\ pc = "idle"
    /\ creature_ids = << >>
    /\ action = "None"
    /\ new_creatures = << >>
    /\ attacks_this_tick = << >>
    /\ total_resurrected = LongRunStart
    /\ inputs = NoInputs
    /\ InitOuter
    /\ InitBrain
    /\ InitIter

\* The steps of tick() that a run takes in which every creature dies in
\* its upkeep and never acts (SoloConfig: of starvation; RegenConfig: of
\* age).
NextLongRun ==
    \/ RegenerateFood
    \/ AgeAndDecayFood
    \/ Shuffle
    \/ Upkeep
    \/ CommitBirths
    \/ MaterializeDeaths
    \/ ExtinctionFailsafe
    \/ RotateAttackMap

SpecLongRun == InitLongRun /\ [][NextLongRun]_vars

\* The simulation started from a world of the food configurations.
InitFood == InitFrom(FoodConfigs)

SpecFood == InitFood /\ [][Next]_vars

\* The simulation started with a creature that leaves meat at once, in a
\* world that regenerates.
SpecRegen == InitFrom({RegenConfig}) /\ [][NextLongRun]_vars

\* The simulation started with a creature that can reproduce twice.
SpecBreed == InitFrom({BreedConfig}) /\ [][Next]_vars

\* The simulation started with two creatures that can share energy.
InitShare == InitFrom(ShareConfigs)

SpecShare == InitShare /\ [][Next]_vars

(***************************************************************************)
(* The controller of a creature (creature/neural_net.rs): its construction *)
(* from a genome and from the data of a snapshot.  Weights and buffers are *)
(* vectors of numbers; the numbers themselves are all written 0.           *)
(***************************************************************************)
\* vec![0.0; n]
Zeros(n) == [i \in 1..n |-> 0]

\* The NeuralNetworkData values a snapshot can hold.
NetworkDatas ==
    [input_size : 0..MaxSize, hidden_size : 0..MaxSize, output_size : 0..MaxSize,
     weights_ih : {Zeros(n) : n \in 0..MaxWeights},
     weights_ho : {Zeros(n) : n \in 0..MaxWeights}]

\* NeuralNetwork::from_weights.  Its debug assertions on the two lengths
\* hold at both call sites.
from_weights(input_size, hidden_size, output_size, weights_ih, weights_ho) ==
    [kind |-> "network",
     input_size |-> input_size, hidden_size |-> hidden_size,
     output_size |-> output_size,
     weights_ih |-> weights_ih, weights_ho |-> weights_ho,
     hidden |-> Zeros(hidden_size),
     output |-> Zeros(output_size),
     softmax |-> Zeros(output_size)]

\* NeuralNetwork::from_genome: hidden_size * input_size and
\* output_size * hidden_size weights, each read from the genes.
from_genome(genome, input_size, hidden_size, output_size) ==
    from_weights(input_size, hidden_size, output_size,
                 Zeros(hidden_size * input_size),
                 Zeros(output_size * hidden_size))

\* de::Error::custom(message)
DeError(message) == [kind |-> "error", message |-> message]

\* A deserializer that builds the network without looking at the lengths.
deserialize_unchecked(data) ==
    from_weights(data.input_size, data.hidden_size, data.output_size,
                 data.weights_ih, data.weights_ho)

\* impl Deserialize for NeuralNetwork
deserialize_network(data) ==
    IF Len(data.weights_ih) # data.hidden_size * data.input_size
    THEN DeError("weights_ih length does not match dimensions")
    ELSE IF Len(data.weights_ho) # data.output_size * data.hidden_size
    THEN DeError("weights_ho length does not match dimensions")
    ELSE from_weights(data.input_size, data.hidden_size, data.output_size,
                      data.weights_ih, data.weights_ho)

\* A controller is read from the data of a snapshot.
DeserializeBrain ==
    /\ nn_request.kind = "data"
    /\ brain = NoBrain
    /\ brain' = deserialize_network(nn_request.data)
    /\ UNCHANGED nn_request
    /\ UNCHANGED <<config, world, creatures, creature_positions, attacks_last_tick,
                   recently_dead, tick, next_creature_id, total_births, total_deaths,
                   pc, creature_ids, action, new_creatures, attacks_this_tick,
                   total_resurrected, inputs, outer_vars, iter_vars>>

\* Creature::new builds the controller of a creature from its genome and
\* the three layer sizes.
BuildBrain ==
    /\ nn_request.kind = "genome"
    /\ brain = NoBrain
    /\ brain' = from_genome(GenomeRandom, nn_request.data.input_size,
                            nn_request.data.hidden_size, nn_request.data.output_size)
    /\ UNCHANGED nn_request
    /\ UNCHANGED <<config, world, creatures, creature_positions, attacks_last_tick,
                   recently_dead, tick, next_creature_id, total_births, total_deaths,
                   pc, creature_ids, action, new_creatures, attacks_this_tick,
                   total_resurrected, inputs, outer_vars, iter_vars>>

\* One controller is asked for, from snapshot data of any shape or from a
\* genome and any layer sizes.
InitNet ==
    /\ InitSimulation({EmptyConfig})
    /\ nn_request \in
          {[kind |-> "data", data |-> d] : d \in NetworkDatas}
             \cup {[kind |-> "genome", data |-> d] :
                      d \in {x \in NetworkDatas :
                                x.weights_ih = << >> /\ x.weights_ho = << >>}}
    /\ brain = NoBrain
    /\ InitIter

NextNet ==
    \/ DeserializeBrain
    \/ BuildBrain

SpecNet == InitNet /\ [][NextNet]_vars

(***************************************************************************)
(* SpatialIndex and BoundingBoxIter (simulation/mod.rs).  The index is the *)
(* variable creature_positions.  The iterator borrows the index, so a      *)
(* write to the index happens only once the iterator is dropped.           *)
(***************************************************************************)
\* An advance that restarts every row at column 0.
advance_from_zero(it) ==
    IF it.x >= it.x_max
    THEN [it EXCEPT !.x = 0,
                    !.y = IF it.y >= it.y_max THEN it.y_max + 1 ELSE it.y + 1]
    ELSE [it EXCEPT !.x = it.x + 1]

\* BoundingBoxIter::advance
advance(it) ==
    IF it.x >= it.x_max
    THEN [it EXCEPT !.x = it.x_min,
                    !.y = IF it.y >= it.y_max THEN it.y_max + 1 ELSE it.y + 1]
    ELSE [it EXCEPT !.x = it.x + 1]

\* BoundingBoxIter::next: whether an item is returned (some), the item, and
\* the iterator it leaves.
RECURSIVE next(_, _)
next(idx, it) ==
    IF it.y <= it.y_max
    THEN IF idx[<<it.x, it.y>>] # None
         THEN [some |-> TRUE, item |-> <<it.x, it.y, idx[<<it.x, it.y>>]>>,
               it |-> advance(it)]
         ELSE next(idx, advance(it))
    ELSE [some |-> FALSE, item |-> << >>, it |-> it]

\* What every step on the index and its iterator leaves alone.
IndexFrame ==
    UNCHANGED <<config, world, creatures, attacks_last_tick, recently_dead, tick,
                next_creature_id, total_births, total_deaths, pc, creature_ids,
                action, new_creatures, attacks_this_tick, total_resurrected,
                inputs, outer_vars, nn_vars>>

\* A write to the index drops any iterator.
DropIter ==
    /\ box_iter' = NoIter
    /\ box_args' = [x_min |-> 0, y_min |-> 0, x_max |-> 0, y_max |-> 0]
    /\ yielded' = << >>

\* index.set(x, y, id)
IndexSet ==
    /\ \E c \in Cells(config), id \in 0..MaxIndexId :
          creature_positions' = [creature_positions EXCEPT ![c] = id]
    /\ DropIter
    /\ IndexFrame

\* index.clear(x, y)
IndexClear ==
    /\ \E c \in Cells(config) :
          /\ creature_positions[c] # None
          /\ creature_positions' = [creature_positions EXCEPT ![c] = None]
    /\ DropIter
    /\ IndexFrame

\* index.clear_all()
IndexClearAll ==
    /\ \E c \in Cells(config) : creature_positions[c] # None
    /\ creature_positions' = [c \in DOMAIN creature_positions |-> None]
    /\ DropIter
    /\ IndexFrame

\* index.iter_box(x_min, y_min, x_max, y_max) with a rectangle inside the
\* grid.
IterBox ==
    /\ box_iter.kind # "live"
    /\ \E x_min, x_max \in 0..(config.width - 1), y_min, y_max \in 0..(config.height - 1) :
          /\ x_min <= x_max /\ y_min <= y_max
          /\ box_iter' = [kind |-> "live", x |-> x_min, y |-> y_min,
                          x_min |-> x_min, x_max |-> x_max, y_max |-> y_max]
          /\ box_args' = [x_min |-> x_min, y_min |-> y_min,
                          x_max |-> x_max, y_max |-> y_max]
    /\ yielded' = << >>
    /\ UNCHANGED creature_positions
    /\ IndexFrame

\* iterator.next()
IterNext ==
    /\ box_iter.kind = "live"
    /\ LET r == next(creature_positions, box_iter)
       IN IF ~r.some
          THEN /\ box_iter' = [r.it EXCEPT !.kind = "done"]
               /\ yielded' = yielded
          ELSE /\ box_iter' = r.it
               /\ yielded' = Append(yielded, r.item)
    /\ UNCHANGED <<creature_positions, box_args>>
    /\ IndexFrame

NextIndex ==
    \/ IndexSet
    \/ IndexClear
    \/ IndexClearAll
    \/ IterBox
    \/ IterNext

\* From the empty index of an empty 2x2 world.
SpecIndex == InitFrom({EmptyConfig}) /\ [][NextIndex]_vars

(***************************************************************************)
(* The process: run_simulation (main.rs), the RwLock around the state, one *)
(* websocket task (server/mod.rs, server/state_stream.rs), the checkpoint  *)
(* writer (checkpoint/mod.rs) and the restart handler (server/mod.rs).     *)
(***************************************************************************)
\* What a clone or a serialization of the state shows of it, with the
\* position of tick() it was taken at.
Snapshot ==
    [tick |-> tick, pc |-> pc, population |-> Cardinality(DOMAIN creatures),
     dead |-> Cardinality(DeadIds(creatures)), pending |-> Len(new_creatures)]

\* A tick() call has begun and has not returned.
InTickCall == run_pc = "tick" /\ tick = tick_at_call

\* A lock that hands out read guards while the write guard is held.
read_granted_always(writer) == TRUE

\* RwLock::read: granted when no write guard is held.
read_granted(writer) == ~writer

\* RwLock::write: granted when no guard is held.
write_granted(writer, readers) == ~writer /\ readers = {}

\* run_simulation: tick_interval.tick().await, then state.write().await.
RunAcquireWrite ==
    /\ run_pc = "sleep"
    /\ restart # "exited"
    /\ pc = "idle"
    /\ (tick < MaxTick \/ (LongRunStart <= tick /\ tick < LongRunStart + MaxTick))
    /\ write_granted(lock_writer, lock_readers)
    /\ lock_writer' = TRUE
    /\ tick_at_call' = tick
    /\ run_pc' = "tick"
    /\ UNCHANGED <<nn_vars, iter_vars>>
    /\ UNCHANGED <<config, world, creatures, creature_positions, attacks_last_tick,
                   recently_dead, tick, next_creature_id, total_births, total_deaths,
                   pc, creature_ids, action, new_creatures, attacks_this_tick,
                   total_resurrected, inputs, since_log, lock_readers, ws_pc,
                   ws_state, checkpoint_file, restart>>

\* run_simulation: sim_state.tick(&config), one step of it, under the write
\* guard.
TickStep ==
    /\ InTickCall
    /\ restart # "exited"
    /\ \/ RegenerateFood
       \/ AgeAndDecayFood
       \/ Shuffle
       \/ Upkeep
       \/ CommitBirths
       \/ MaterializeDeaths
       \/ ExtinctionFailsafe
       \/ RotateAttackMap

\* The values last_log.elapsed() >= log_interval can take after n
\* iterations without a log: time passes with every awaited interval tick.
log_due(n) == IF n + 1 >= LogEvery THEN {TRUE} ELSE BOOLEAN

\* A loop that also stops for a population of one.
should_break_low(population) == population <= 1

\* metrics.population == 0
should_break(population) == population = 0

\* run_simulation: after tick() returned, the periodic log with the
\* population test that breaks out of the loop; the write guard is dropped
\* at the end of the block (and by the break).
RunAfterTick ==
    /\ run_pc = "tick"
    /\ tick # tick_at_call
    /\ restart # "exited"
    /\ \E due \in log_due(since_log) :
          IF due
          THEN /\ since_log' = 0
               /\ run_pc' = IF should_break(Cardinality(DOMAIN creatures))
                            THEN "done" ELSE "checkpoint"
          ELSE /\ since_log' = since_log + 1
               /\ run_pc' = "checkpoint"
    /\ lock_writer' = FALSE
    /\ UNCHANGED <<nn_vars, iter_vars>>
    /\ UNCHANGED <<config, world, creatures, creature_positions, attacks_last_tick,
                   recently_dead, tick, next_creature_id, total_births, total_deaths,
                   pc, creature_ids, action, new_creatures, attacks_this_tick,
                   total_resurrected, inputs, tick_at_call, lock_readers, ws_pc,
                   ws_state, checkpoint_file, restart>>

\* run_simulation: no checkpoint interval, or it has not elapsed.
RunSkipCheckpoint ==
    /\ run_pc = "checkpoint"
    /\ restart # "exited"
    /\ run_pc' = "sleep"
    /\ UNCHANGED <<nn_vars, iter_vars>>
    /\ UNCHANGED <<config, world, creatures, creature_positions, attacks_last_tick,
                   recently_dead, tick, next_creature_id, total_births, total_deaths,
                   pc, creature_ids, action, new_creatures, attacks_this_tick,
                   total_resurrected, inputs, tick_at_call, since_log, lock_writer,
                   lock_readers, ws_pc, ws_state, checkpoint_file, restart>>

\* run_simulation: the checkpoint is due, state.read().await.
RunAcquireRead ==
    /\ run_pc = "checkpoint"
    /\ restart # "exited"
    /\ read_granted(lock_writer)
    /\ lock_readers' = lock_readers \cup {"run"}
    /\ run_pc' = "saving"
    /\ UNCHANGED <<nn_vars, iter_vars>>
    /\ UNCHANGED <<config, world, creatures, creature_positions, attacks_last_tick,
                   recently_dead, tick, next_creature_id, total_births, total_deaths,
                   pc, creature_ids, action, new_creatures, attacks_this_tick,
                   total_resurrected, inputs, tick_at_call, since_log, lock_writer,
                   ws_pc, ws_state, checkpoint_file, restart>>

\* save_checkpoint(&sim_state, &config): serializes the guarded state and
\* writes the file, or fails on the way; the caller still holds its read
\* guard.
SaveCheckpoint ==
    /\ run_pc = "saving"
    /\ restart # "exited"
    /\ \E ok \in BOOLEAN :
          checkpoint_file' = IF ok THEN Snapshot ELSE checkpoint_file
    /\ run_pc' = "saved"
    /\ UNCHANGED <<nn_vars, iter_vars>>
    /\ UNCHANGED <<config, world, creatures, creature_positions, attacks_last_tick,
                   recently_dead, tick, next_creature_id, total_births, total_deaths,
                   pc, creature_ids, action, new_creatures, attacks_this_tick,
                   total_resurrected, inputs, tick_at_call, since_log, lock_writer,
                   lock_readers, ws_pc, ws_state, restart>>

\* run_simulation: the result of save_checkpoint is logged and the read
\* guard is dropped at the end of the block.
RunReleaseRead ==
    /\ run_pc = "saved"
    /\ restart # "exited"
    /\ lock_readers' = lock_readers \ {"run"}
    /\ run_pc' = "sleep"
    /\ UNCHANGED <<nn_vars, iter_vars>>
    /\ UNCHANGED <<config, world, creatures, creature_positions, attacks_last_tick,
                   recently_dead, tick, next_creature_id, total_births, total_deaths,
                   pc, creature_ids, action, new_creatures, attacks_this_tick,
                   total_resurrected, inputs, tick_at_call, since_log, lock_writer,
                   ws_pc, ws_state, checkpoint_file, restart>>

\* websocket_handler: a client connects and handle_websocket starts.
WsConnect ==
    /\ ws_pc = "closed"
    /\ restart # "exited"
    /\ ws_pc' = "select"
    /\ UNCHANGED <<nn_vars, iter_vars>>
    /\ UNCHANGED <<config, world, creatures, creature_positions, attacks_last_tick,
                   recently_dead, tick, next_creature_id, total_births, total_deaths,
                   pc, creature_ids, action, new_creatures, attacks_this_tick,
                   total_resurrected, inputs, run_pc, tick_at_call, since_log,
                   lock_writer, lock_readers, ws_state, checkpoint_file, restart>>

\* handle_websocket: the update interval fired (or GetState arrived);
\* StateStream::get_state: self.state.read().await.
WsAcquireRead ==
    /\ ws_pc = "select"
    /\ restart # "exited"
    /\ read_granted(lock_writer)
    /\ lock_readers' = lock_readers \cup {"ws"}
    /\ ws_pc' = "reading"
    /\ UNCHANGED <<nn_vars, iter_vars>>
    /\ UNCHANGED <<config, world, creatures, creature_positions, attacks_last_tick,
                   recently_dead, tick, next_creature_id, total_births, total_deaths,
                   pc, creature_ids, action, new_creatures, attacks_this_tick,
                   total_resurrected, inputs, run_pc, tick_at_call, since_log,
                   lock_writer, ws_state, checkpoint_file, restart>>

\* StateStream::get_state: .clone(), and the temporary read guard is
\* dropped at the end of the statement.
WsClone ==
    /\ ws_pc = "reading"
    /\ restart # "exited"
    /\ ws_state' = Snapshot
    /\ lock_readers' = lock_readers \ {"ws"}
    /\ ws_pc' = "send"
    /\ UNCHANGED <<nn_vars, iter_vars>>
    /\ UNCHANGED <<config, world, creatures, creature_positions, attacks_last_tick,
                   recently_dead, tick, next_creature_id, total_births, total_deaths,
                   pc, creature_ids, action, new_creatures, attacks_this_tick,
                   total_resurrected, inputs, run_pc, tick_at_call, since_log,
                   lock_writer, checkpoint_file, restart>>

\* handle_websocket: the message is built from the clone, serialized and
\* sent; a failed send ends the task.
WsSend ==
    /\ ws_pc = "send"
    /\ restart # "exited"
    /\ \E ok \in BOOLEAN : ws_pc' = IF ok THEN "select" ELSE "closed"
    /\ ws_state' = NoSnapshot
    /\ UNCHANGED <<nn_vars, iter_vars>>
    /\ UNCHANGED <<config, world, creatures, creature_positions, attacks_last_tick,
                   recently_dead, tick, next_creature_id, total_births, total_deaths,
                   pc, creature_ids, action, new_creatures, attacks_this_tick,
                   total_resurrected, inputs, run_pc, tick_at_call, since_log,
                   lock_writer, lock_readers, checkpoint_file, restart>>

\* restart_handler: spawns the task that sleeps and then exits the process.
RestartRequest ==
    /\ restart = "none"
    /\ restart' = "requested"
    /\ UNCHANGED <<nn_vars, iter_vars>>
    /\ UNCHANGED <<config, world, creatures, creature_positions, attacks_last_tick,
                   recently_dead, tick, next_creature_id, total_births, total_deaths,
                   pc, creature_ids, action, new_creatures, attacks_this_tick,
                   total_resurrected, inputs, run_pc, tick_at_call, since_log,
                   lock_writer, lock_readers, ws_pc, ws_state, checkpoint_file>>

\* The spawned task: std::process::exit(0) once its sleep is over.
ProcessExit ==
    /\ restart = "requested"
    /\ restart' = "exited"
    /\ UNCHANGED <<nn_vars, iter_vars>>
    /\ UNCHANGED <<config, world, creatures, creature_positions, attacks_last_tick,
                   recently_dead, tick, next_creature_id, total_births, total_deaths,
                   pc, creature_ids, action, new_creatures, attacks_this_tick,
                   total_resurrected, inputs, run_pc, tick_at_call, since_log,
                   lock_writer, lock_readers, ws_pc, ws_state, checkpoint_file>>

\* The process started on a new state (SimulationState::new) under one of
\* the run configurations.
InitRun == InitFrom(RunConfigs)

NextRun ==
    \/ RunAcquireWrite
    \/ TickStep
    \/ RunAfterTick
    \/ RunSkipCheckpoint
    \/ RunAcquireRead
    \/ SaveCheckpoint
    \/ RunReleaseRead
    \/ WsConnect
    \/ WsAcquireRead
    \/ WsClone
    \/ WsSend
    \/ RestartRequest
    \/ ProcessExit

SpecRun == InitRun /\ [][NextRun]_vars

\* The steps of the run loop that need nothing from another task.
RunStep ==
    \/ TickStep
    \/ RunAfterTick
    \/ RunSkipCheckpoint
    \/ RunAcquireRead
    \/ SaveCheckpoint
    \/ RunReleaseRead

\* The process under a scheduler that keeps running every ready task and a
\* lock that is fair to a waiting writer: the run loop goes on, a read
\* guard taken by get_state is dropped by the same statement, and
\* state.write() is granted once it has been possible often enough.
SpecRunFair ==
    InitRun /\ [][NextRun]_vars
       /\ WF_vars(RunStep) /\ WF_vars(WsClone) /\ SF_vars(RunAcquireWrite)

(***************************************************************************)
(* Shape of the state.                                                     *)
(***************************************************************************)
TypeOK ==
    /\ config \in Configs \cup RunConfigs \cup FoodConfigs \cup ShareConfigs
                 \cup {RegenConfig, BreedConfig}
    /\ nn_request.kind \in {"none", "data", "genome"}
    /\ brain.kind \in {"none", "error", "network"}
    /\ box_iter.kind \in {"none", "live", "done"}
    /\ DOMAIN world = Cells(config)
    /\ \A id \in DOMAIN creatures : creatures[id].id = id
    /\ tick \in (0..MaxTick) \cup (LongRunStart..(LongRunStart + MaxTick))
    /\ pc \in {"idle", "decay", "shuffle", "loop", "dispatch", "reproduce_check",
               "deaths", "failsafe", "rotate"}

(***************************************************************************)
(* Properties.                                                             *)
(***************************************************************************)
\* The cell a creature stands on.
position(c) == <<c.x, c.y>>

\* The population size, creatures.len().
population == Cardinality(DOMAIN creatures)

\* C1: in the initial state and at the end of every tick, for every cell
\* and every id, creature_positions[cell] = id if and only if a creature
\* with that id is in the population and stands on that cell.
C1_IndexIffPosition ==
    pc = "idle" =>
        \A cell \in Cells(config) :
            \A id \in (DOMAIN creatures \cup {creature_positions[cell]}) \ {None} :
                (creature_positions[cell] = id)
                    <=> (id \in DOMAIN creatures /\ position(creatures[id]) = cell)

\* C2: in the initial state and at the end of every tick, no two creatures
\* of the population stand on the same cell.
C2_OneCreaturePerCell ==
    pc = "idle" =>
        \A a, b \in DOMAIN creatures :
            a # b => position(creatures[a]) # position(creatures[b])

\* C3: when max_population > 0 and the population is at most max_population
\* at the start of a tick (the population does not change before the births
\* are committed), the population after the commit of the pending births is
\* at most max_population.
C3_CommitKeepsCap ==
    [][(/\ pc = "loop" /\ creature_ids = << >>
        /\ config.max_population > 0
        /\ population <= config.max_population)
       => Cardinality(DOMAIN creatures') <= config.max_population]_vars

\* C4: a creature whose age after the increment is at least max_age_ticks
\* is not alive at the liveness test of the loop, so it is never the
\* creature an action is dispatched for, and it is gone from the population
\* once the deaths of that tick have been removed.
C4_AgeDeath ==
    /\ pc \in {"dispatch", "reproduce_check"}
          => creatures[cur].age < config.max_age_ticks
    /\ pc \in {"failsafe", "rotate", "idle"}
          => \A id \in DOMAIN creatures : creatures[id].age < config.max_age_ticks

\* C5: death is final within a tick: a creature whose health is 0 keeps
\* health 0 for as long as it is in the population, and no action is
\* dispatched for it.
C5_DeathIsFinal ==
    [][\A id \in DOMAIN creatures :
          creatures[id].metabolism.health = 0
              => /\ id \in DOMAIN creatures' => creatures'[id].metabolism.health = 0
                 /\ ~(pc' = "dispatch" /\ Head(creature_ids') = id)]_vars

\* C6 (as stated): at the end of every tick
\* total_births - total_deaths + initial_population >= population.
C6_BirthDeathBalance ==
    pc = "idle" =>
        total_births - total_deaths + config.initial_population >= population

\* C6 (amended): at the end of every tick total_births - total_deaths +
\* initial_population + (number of creatures the extinction failsafe has
\* resurrected so far) >= population.
C6_BirthDeathResurrectionBalance ==
    pc = "idle" =>
        total_births - total_deaths + config.initial_population + total_resurrected
            >= population

\* A tick has ended in which creatures died and the failsafe resurrected
\* some.
C6_Witness ==
    /\ pc = "idle"
    /\ config = MainConfig
    /\ total_deaths > 0
    /\ total_resurrected > 0
    /\ population > 0

\* C7: in the initial state and at the end of every tick (indeed at every
\* step of a tick) every creature of the population has
\* 0 <= energy <= max_energy and 0 <= health <= max_health = 100.
C7_EnergyAndHealthInRange ==
    \A id \in DOMAIN creatures :
        LET m == creatures[id].metabolism
        IN /\ 0 <= m.energy /\ m.energy <= m.max_energy
           /\ m.max_energy = config.max_energy
           /\ 0 <= m.health /\ m.health <= m.max_health
           /\ m.max_health = MaxHealth

\* A tick has ended with a creature that paid upkeep and is back at its
\* energy cap: its gain was clamped.
C7_Witness ==
    /\ pc = "idle"
    /\ config.energy_cost_per_tick > 0
    /\ \E id \in DOMAIN creatures :
          /\ creatures[id].age > 0
          /\ creatures[id].metabolism.energy = creatures[id].metabolism.max_energy

\* The solo starvation scenario has run its first tick.
SoloAfterOneTick == config = SoloConfig /\ pc = "idle" /\ tick = 1

\* C8 (as stated): in the solo starvation scenario one tick raises
\* total_deaths from 0 to 1, leaves a meat cell of amount 1 where the
\* creature died and ends with population 1.
C8_SoloStarvationLeavesMeat ==
    SoloAfterOneTick =>
        /\ total_deaths = 1
        /\ Len(recently_dead) = 1
        /\ world[position(recently_dead[1])] = Food(1, TRUE, 0)
        /\ population = 1

\* C8 (amended): in the solo starvation scenario one tick raises
\* total_deaths from 0 to 1, leaves no food at all (the failed debit set the
\* energy to 0, so the meat amount is ceil(0/20) = 0) and ends with
\* population 1, the creature resurrected under a fresh id with the initial
\* energy and full health.
C8_SoloStarvationLeavesNoMeat ==
    /\ (config = SoloConfig /\ tick = 0 /\ pc = "idle") => total_deaths = 0
    /\ SoloAfterOneTick =>
          /\ total_deaths = 1
          /\ Len(recently_dead) = 1
          /\ recently_dead[1].id = 0
          /\ recently_dead[1].metabolism.energy = 0
          /\ total_food(world) = 0
          /\ DOMAIN creatures = {1}
          /\ creatures[1].metabolism = MetabolismNew(1, config.max_energy)

\* The solo scenario after its first tick, the corpse recorded.
C8_Witness == SoloAfterOneTick /\ Len(recently_dead) = 1 /\ total_resurrected = 1

\* The energy cost of the move being dispatched.
move_cost == IF action \in Sprints THEN config.energy_cost_sprint ELSE config.energy_cost_move

\* C9: when creature A, with energy at least the cost, makes a Move or
\* Sprint whose target cell is the position of another creature B, then A's
\* position and the spatial index are unchanged, A's energy drops by the
\* cost, B's health drops by min(health, damage_per_attack) and the attack
\* map handed to the next tick holds for B the direction opposite to A's
\* motion.
C9_MoveIntoOccupantAttacks ==
    [][\A B \in DOMAIN creatures :
          (/\ pc = "dispatch" /\ action \in Moves \cup Sprints
           /\ B # cur
           /\ creatures[cur].metabolism.energy >= move_cost
           /\ position(creatures[B]) =
                 MoveTarget(config, creatures[cur].x, creatures[cur].y, action))
          => /\ position(creatures'[cur]) = position(creatures[cur])
             /\ creature_positions' = creature_positions
             /\ creatures'[cur].metabolism.energy =
                   creatures[cur].metabolism.energy - move_cost
             /\ creatures'[B].metabolism.health =
                   creatures[B].metabolism.health
                       - Min(creatures[B].metabolism.health, config.damage_per_attack)
             /\ B \in DOMAIN attacks_this_tick'
             /\ attack_dir(action) \in Range(attacks_this_tick'[B])]_vars

\* C10: a Move or Sprint never damages the mover and records no attack
\* against the mover, also when the clamped target is the mover's own cell.
C10_MoveNeverHurtsMover ==
    [][(pc = "dispatch" /\ action \in Moves \cup Sprints)
       => /\ creatures'[cur].metabolism.health = creatures[cur].metabolism.health
          /\ cur \in DOMAIN attacks_this_tick'
                => /\ cur \in DOMAIN attacks_this_tick
                   /\ attacks_this_tick'[cur] = attacks_this_tick[cur]]_vars

\* The genomes of the n most recently pushed corpses.
RecentGenomes(n) ==
    {recently_dead[Len(recently_dead) - i].genome : i \in 0..(n - 1)}

\* C11: when the population is empty after the dead were removed and the
\* recently-dead buffer is not empty, the failsafe leaves exactly
\* min(initial_population, |buffer|) creatures, each alive with full health
\* and the initial energy, each under an id not used before, each with the
\* genome of one of the most recent corpses; when the population is not
\* empty nobody is resurrected.
C11_FailsafeResurrects ==
    [][pc = "failsafe" =>
          IF DOMAIN creatures = {} /\ recently_dead # << >>
          THEN LET n == IF config.initial_population <= Len(recently_dead)
                        THEN config.initial_population ELSE Len(recently_dead)
               IN /\ Cardinality(DOMAIN creatures') = n
                  /\ \A id \in DOMAIN creatures' :
                        /\ creatures'[id].id = id
                        /\ creatures'[id].metabolism.health = MaxHealth
                        /\ creatures'[id].metabolism.energy = config.initial_energy
                        /\ id >= next_creature_id
                        /\ id < next_creature_id'
                        /\ \A k \in 1..Len(recently_dead) : recently_dead[k].id # id
                        /\ creatures'[id].genome \in RecentGenomes(n)
                        /\ creatures'[id].age = 0
          ELSE creatures' = creatures /\ next_creature_id' = next_creature_id]_vars

\* The failsafe has just resurrected fewer creatures than the buffer holds
\* corpses.
C11_Witness ==
    /\ pc = "rotate"
    /\ DOMAIN creatures # {}
    /\ \A id \in DOMAIN creatures : creatures[id].age = 0 /\ id >= config.initial_population
    /\ Len(recently_dead) > config.initial_population
    /\ Cardinality(DOMAIN creatures) = config.initial_population

\* C12 as stated: when every creature dies during a tick that began with an
\* empty recently-dead buffer (the first tick does), nobody is resurrected
\* and the population is zero at the end of that tick.
C12_ExtinctionFromEmptyFifoStays ==
    [][(pc = "failsafe" /\ tick = 0 /\ DOMAIN creatures = {})
          => (DOMAIN creatures' = {} /\ total_resurrected' = total_resurrected)]_vars

\* C12, amended: the failsafe resurrects only when the recently-dead buffer
\* has corpses, and the corpses of the current tick are in it when it is
\* tested; so when every creature dies during a tick, the buffer is not
\* empty at the test, creatures are resurrected and the population is not
\* zero at the end of the tick.
C12_ExtinctionIsRevived ==
    [][/\ (pc = "deaths" /\ DOMAIN creatures # {} /\ DeadIds(creatures) = DOMAIN creatures)
            => (recently_dead' # << >> /\ DOMAIN creatures' = {})
       /\ (pc = "failsafe" /\ DOMAIN creatures = {} /\ recently_dead # << >>
                           /\ config.initial_population >= 1)
            => (DOMAIN creatures' # {} /\ total_resurrected' > total_resurrected)
       /\ (pc = "failsafe" /\ recently_dead = << >>)
            => (creatures' = creatures /\ total_resurrected' = total_resurrected)
       /\ (pc = "rotate" /\ total_deaths > 0 /\ config.initial_population >= 1)
            => DOMAIN creatures' # {}]_vars

\* The first tick, begun with an empty buffer, killed every creature and
\* ended with a resurrected population.
C12_Witness ==
    /\ pc = "idle"
    /\ tick = 1
    /\ total_deaths = config.initial_population + total_births
    /\ total_resurrected > 0
    /\ DOMAIN creatures # {}

\* The least k with 20 * k >= e.
CeilOver20(e) == CHOOSE k \in 0..(e + 1) : 20 * k >= e /\ 20 * (k - 1) < e

\* The dead creatures standing on cell p whose remaining energy gives meat.
MeatGivers(p) ==
    {id \in DOMAIN creatures :
        /\ ~is_alive(creatures[id].metabolism)
        /\ position(creatures[id]) = p
        /\ CeilOver20(creatures[id].metabolism.energy) > 0}

\* C13: in the step that handles the deaths, a cell on which no dead
\* creature with ceil(e/20) > 0 stands is unchanged; a cell on which one
\* such creature stands becomes meat of age 0, of amount
\* min(ceil(e/20), max_food_per_cell) when it was empty or held plant food
\* (the plant is gone) and of the saturated sum when it held meat; a cell on
\* which several stand becomes meat of age 0 within the maximum.
C13_MeatOnDeath ==
    [][pc = "deaths" =>
          \A p \in Cells(config) :
             IF MeatGivers(p) = {} THEN world'[p] = world[p]
             ELSE /\ world'[p].kind = "Food"
                  /\ world'[p].is_meat
                  /\ world'[p].age = 0
                  /\ world'[p].amount <= config.max_food_per_cell
                  /\ \A id \in MeatGivers(p) :
                        LET m == CeilOver20(creatures[id].metabolism.energy)
                            had == IF world[p].kind = "Food" /\ world[p].is_meat
                                   THEN world[p].amount ELSE 0
                        IN IF MeatGivers(p) = {id}
                           THEN world'[p].amount =
                                   (IF had + m <= config.max_food_per_cell
                                    THEN had + m ELSE config.max_food_per_cell)
                           ELSE world'[p].amount >=
                                   (IF m <= config.max_food_per_cell
                                    THEN m ELSE config.max_food_per_cell)]_vars

\* A creature has just died with energy 30 on a cell that held 2 plant, and
\* the cell now holds 2 meat of age 0.
C13_Witness ==
    /\ pc = "failsafe"
    /\ config = CorpseConfig
    /\ tick = 0
    /\ recently_dead # << >>
    /\ LET c == recently_dead[Len(recently_dead)]
       IN /\ c.metabolism.energy = 30
          /\ world[position(c)] = Food(2, TRUE, 0)
          /\ \A p \in Cells(config) \ {position(c)} :
                is_food(world[p]) /\ ~world[p].is_meat /\ world[p].amount = 2

\* C14: the step that ends tick T makes attacks_last_tick exactly the map
\* recorded during tick T, no other step changes attacks_last_tick, the map
\* of a tick starts empty, and the inputs 9..12 a creature decides on are
\* set exactly for the directions stored for it in the map of the previous
\* tick, whatever was recorded in the current tick.
C14_AttackMapRotation ==
    [][/\ (pc = "rotate" => attacks_last_tick' = attacks_this_tick)
       /\ (pc # "rotate" => attacks_last_tick' = attacks_last_tick)
       /\ (pc' \in {"idle", "decay", "shuffle"} => attacks_this_tick' = << >>)
       /\ (pc = "shuffle" => attacks_this_tick' = << >>)
       /\ (pc = "loop" /\ pc' = "dispatch")
             => \A k \in 9..12 :
                   inputs'[k] = 1 <=>
                      /\ cur \in DOMAIN attacks_last_tick
                      /\ \E i \in 1..Len(attacks_last_tick[cur]) :
                            attacks_last_tick[cur][i] =
                               (CASE k = 9 -> "Up" [] k = 10 -> "Down"
                                  [] k = 11 -> "Left" [] k = 12 -> "Right")]_vars

\* A creature struck in the previous tick and not yet in the current one
\* decides with an attack sensor set.
C14_Witness ==
    /\ pc = "dispatch"
    /\ tick > 0
    /\ cur \in DOMAIN attacks_last_tick
    /\ \E k \in 9..12 : inputs[k] = 1
    /\ cur \notin DOMAIN attacks_this_tick

\* C15: at the end of every tick attacks_last_tick has at most as many keys
\* as the population has creatures, and every victim's list of directions
\* has at most 4 entries.
C15_AttackMapBounded ==
    pc = "idle" =>
       /\ Cardinality(DOMAIN attacks_last_tick) <= population
       /\ \A victim \in DOMAIN attacks_last_tick : Len(attacks_last_tick[victim]) <= 4

\* The last n elements of a sequence (all of it when it is shorter).
LastOf(q, n) == IF Len(q) <= n THEN q ELSE SubSeq(q, Len(q) - n + 1, Len(q))

\* C16: the recently-dead buffer never holds more than 100 records, and the
\* step that pushes the corpses of a tick leaves the last 100 records of the
\* old buffer followed by these corpses, in the order they were pushed; no
\* other step changes the buffer.
C16_FifoBounded ==
    [][/\ Len(recently_dead') <= 100
       /\ IF pc = "deaths"
          THEN \E dead \in Orders(DeadIds(creatures)) :
                  recently_dead' =
                     LastOf(recently_dead \o [i \in 1..Len(dead) |-> creatures[dead[i]]], 100)
          ELSE recently_dead' = recently_dead]_vars

\* The buffer is full and its oldest corpse was evicted.
C16_Witness ==
    /\ pc = "idle"
    /\ Len(recently_dead) = 100
    /\ total_deaths > 100
    /\ recently_dead[1].id = total_deaths - 100
    /\ recently_dead[100].id = total_deaths - 1

\* The ids of the records of a sequence of creatures.
IdsOf(q) == {q[i].id : i \in 1..Len(q)}

\* The ids held by the population, the pending offspring and the corpses.
AssignedIds == DOMAIN creatures \cup IdsOf(new_creatures) \cup IdsOf(recently_dead)

\* C17: every id held by a creature, a pending offspring or a corpse of the
\* buffer is below next_creature_id; no two of them share an id (a corpse
\* shares none with the living or the pending, pending offspring share none
\* with each other or with the population); next_creature_id never
\* decreases, and an id that appears in a step is at least the
\* next_creature_id the step started from.
C17_IdsUniqueNeverReused ==
    [][/\ \A id \in AssignedIds' : id < next_creature_id'
       /\ \A id \in DOMAIN creatures' : creatures'[id].id = id
       /\ \A i, j \in 1..Len(new_creatures') :
             i # j => new_creatures'[i].id # new_creatures'[j].id
       /\ \A i, j \in 1..Len(recently_dead') :
             i # j => recently_dead'[i].id # recently_dead'[j].id
       /\ IdsOf(new_creatures') \cap DOMAIN creatures' = {}
       /\ IdsOf(recently_dead') \cap (DOMAIN creatures' \cup IdsOf(new_creatures')) = {}
       /\ next_creature_id' >= next_creature_id
       /\ \A id \in AssignedIds' \ AssignedIds : id >= next_creature_id]_vars

\* Two offspring of different parents are pending in the same tick.
C17_Witness ==
    /\ Len(new_creatures) >= 2
    /\ new_creatures[1].id # new_creatures[2].id
    /\ next_creature_id >= config.initial_population + 3
    /\ Cardinality(DOMAIN creatures) >= 2

\* Step 3 of a tick: the loop over the shuffled ids is processing a creature.
InStep3 ==
    \/ pc \in {"dispatch", "reproduce_check"}
    \/ (pc = "loop" /\ creature_ids # << >>)

\* C18: during step 3 no creature enters or leaves the population, no
\* pending offspring is in the spatial index or among the ids still to be
\* processed, pending offspring have age 0, and a creature that is dead and
\* indexed on its cell stays indexed on it; creatures are inserted only at
\* step 4 (or by the failsafe) and removed only at step 5.
C18_BirthsAndDeathsBatched ==
    [][/\ InStep3 =>
            /\ DOMAIN creatures' = DOMAIN creatures
            /\ \A c \in Cells(config) : creature_positions'[c] \notin IdsOf(new_creatures')
            /\ Range(creature_ids') \cap IdsOf(new_creatures') = {}
            /\ \A i \in 1..Len(new_creatures') : new_creatures'[i].age = 0
            /\ \A id \in DOMAIN creatures :
                  (/\ ~is_alive(creatures[id].metabolism)
                   /\ ~is_alive(creatures'[id].metabolism)
                   /\ creature_positions[position(creatures[id])] = id)
                     => creature_positions'[position(creatures'[id])] = id
       /\ (DOMAIN creatures' \ DOMAIN creatures # {}) => (pc \in {"loop", "failsafe"} /\ ~InStep3)
       /\ (DOMAIN creatures \ DOMAIN creatures' # {}) => pc = "deaths"]_vars

\* C19: dispatching the Reproduce action changes no state: no energy is
\* debited, no offspring is pending, no counter changes; offspring come
\* only from the check that follows every action.
C19_ReproduceDispatchIsNoOp ==
    [][/\ (pc = "dispatch" /\ action = "Reproduce")
             => UNCHANGED <<world, creatures, creature_positions, new_creatures,
                            next_creature_id, total_births>>
       /\ Len(new_creatures') > Len(new_creatures) => pc = "reproduce_check"]_vars

\* C20: every spawn increments the offspring_count of the parent by
\* exactly 1: a step that appends an offspring to the pending list raises
\* the offspring_count of the creature being processed by 1, and no other
\* step changes an offspring_count.
C20_SpawnIncrementsOffspringCount ==
    [][/\ Len(new_creatures') = Len(new_creatures) + 1
             => creatures'[cur].offspring_count = creatures[cur].offspring_count + 1
       /\ \A id \in DOMAIN creatures \cap DOMAIN creatures' :
             creatures'[id].offspring_count # creatures[id].offspring_count
                => (id = cur /\ Len(new_creatures') = Len(new_creatures) + 1)]_vars

\* A snapshot taken between two ticks: tick() was not running, no dead
\* creature was waiting for removal and no offspring for its commit.
BetweenTicks(snapshot) ==
    snapshot.pc = "idle" /\ snapshot.dead = 0 /\ snapshot.pending = 0

\* C21: a tick is atomic for observers: while tick() is running the run
\* loop holds the write guard and nobody holds a read guard; every clone
\* and every checkpoint is taken under a read guard; so the state
\* get_state returned and the state the checkpoint file was written from
\* are states between two ticks.
C21_TickAtomicForObservers ==
    /\ pc # "idle" => (lock_writer /\ run_pc = "tick")
    /\ lock_writer => lock_readers = {}
    /\ ws_pc = "reading" <=> "ws" \in lock_readers
    /\ run_pc \in {"saving", "saved"} <=> "run" \in lock_readers
    /\ ws_state # NoSnapshot => BetweenTicks(ws_state)
    /\ checkpoint_file # NoSnapshot => BetweenTicks(checkpoint_file)

\* tick() is running while the websocket task holds a clone taken after an
\* earlier tick and a checkpoint of an earlier tick is on disk.
C21_Witness ==
    /\ InTickCall
    /\ pc \in {"loop", "deaths", "failsafe"}
    /\ ws_pc = "send"
    /\ ws_state # NoSnapshot
    /\ ws_state.tick > 0
    /\ checkpoint_file # NoSnapshot
    /\ checkpoint_file.tick > 0

\* C22: no guard of the state lock is held while an I/O operation is
\* performed: the step that serializes the state and writes the checkpoint
\* file is taken with no read guard held by the run loop, and the step that
\* serializes and sends on the client channel with none held by the
\* websocket task.
C22_NoGuardAcrossIO ==
    [][/\ (run_pc = "saving" /\ run_pc' = "saved") => "run" \notin lock_readers
       /\ (ws_pc = "send" /\ ws_pc' # "send") => "ws" \notin lock_readers]_vars

\* C23: a restart request takes effect only between ticks: the process
\* never exits while a tick() call is in progress.
C23_ExitOnlyBetweenTicks ==
    [][(restart # "exited" /\ restart' = "exited") => (~InTickCall /\ pc = "idle")]_vars

\* tick() has returned to the run loop and left no creature.
TickEndedEmpty ==
    run_pc = "tick" /\ tick # tick_at_call /\ Cardinality(DOMAIN creatures) = 0

\* C24: whenever a tick ends with population zero the run loop eventually
\* returns Ok (as long as the process is not exited by a restart request
\* first), and the run loop returns in no other situation: only between
\* ticks, with population zero and its guard dropped.
C24_ExitsWhenExtinct ==
    /\ TickEndedEmpty ~> (run_pc = "done" \/ restart = "exited")
    /\ [](run_pc = "done" =>
             /\ Cardinality(DOMAIN creatures) = 0
             /\ pc = "idle"
             /\ ~lock_writer)

\* The run loop has returned after more than one tick on an empty
\* population.
C24_Witness ==
    /\ run_pc = "done"
    /\ tick >= 2
    /\ Cardinality(DOMAIN creatures) = 0
    /\ recently_dead = << >>
    /\ restart = "none"

\* What serde writes of a SimulationState: every field that is not marked
\* #[serde(skip)].
serialize ==
    [world |-> world, creatures |-> creatures, tick |-> tick,
     next_creature_id |-> next_creature_id, total_births |-> total_births,
     total_deaths |-> total_deaths]

\* What serde builds from the written fields: the skipped fields take their
\* Default value, an empty index, an empty map and an empty queue.
deserialize(data) ==
    [world |-> data.world, creatures |-> data.creatures, tick |-> data.tick,
     next_creature_id |-> data.next_creature_id,
     total_births |-> data.total_births, total_deaths |-> data.total_deaths,
     creature_positions |-> [c \in Cells(config) |-> None],
     attacks_last_tick |-> << >>,
     recently_dead |-> << >>]

\* SimulationState::rebuild_spatial_index: the states it can leave.
rebuild_spatial_index(state) ==
    {[state EXCEPT !.creature_positions = idx] :
        idx \in RebuiltIndexes(config, state.creatures)}

\* load_checkpoint applied to the file save_checkpoint writes of the current
\* state.
load_checkpoint == rebuild_spatial_index(deserialize(serialize))

\* The orders in which the creatures of a set can die in one tick.
DeathOrders(ids) == UNION {Orders(S) : S \in SUBSET ids}

\* C25: between ticks, a state that is saved, loaded and re-indexed ticks as
\* the original does under the same choices: it has the same spatial index,
\* every creature gets the same attack sensors from it, and whatever
\* creatures die in the tick it leaves the same recently-dead queue and
\* resurrects the same number of creatures on extinction.
C25_RoundTripSameSuccessor ==
    pc = "idle" =>
        \A reloaded \in load_checkpoint :
            /\ reloaded.creature_positions = creature_positions
            /\ \A id \in DOMAIN creatures :
                  attacked_inputs(reloaded.attacks_last_tick, id, config)
                      = attacked_inputs(attacks_last_tick, id, config)
            /\ \A dead \in DeathOrders(DOMAIN creatures) :
                  /\ PushDead(reloaded.recently_dead, reloaded.creatures, dead)
                        = PushDead(recently_dead, creatures, dead)
                  /\ num_to_resurrect(config,
                         PushDead(reloaded.recently_dead, reloaded.creatures, dead))
                        = num_to_resurrect(config,
                              PushDead(recently_dead, creatures, dead))

\* C26: every Food cell of the world holds at least one unit and at most
\* max_food_per_cell units, at every point of every tick.
C26_FoodAmountInRange ==
    \A c \in Cells(config) :
        is_food(world[c]) =>
            /\ 1 <= world[c].amount
            /\ world[c].amount <= config.max_food_per_cell

\* Regeneration meets a full plant cell: a tick has begun its sweep with
\* every cell holding plant food at the cap, one of them fresh.
C26_Witness ==
    /\ pc = "decay"
    /\ tick > 0
    /\ config.max_food_per_cell > 1
    /\ num_cells_to_regen(config) > 0
    /\ \A c \in Cells(config) :
          is_food(world[c]) /\ world[c].amount = config.max_food_per_cell
    /\ \E c \in Cells(config) : world[c].age = 0
    /\ \E c \in Cells(config) : world[c].age > 0

\* The decay threshold of the kind of a food cell.
decay_threshold(c, cfg) ==
    IF c.is_meat THEN cfg.meat_decay_ticks ELSE cfg.plant_decay_ticks

\* C27: the aging sweep of a tick adds exactly 1 to the age of every food
\* cell and empties the cell when that age has reached the threshold of its
\* kind, leaving empty cells empty; in every other step the age of a cell
\* that stays food is unchanged, or is reset to 0 by the regeneration or
\* the meat of that step; so after any step no food cell has an age at or
\* above its threshold.
C27_FoodAgingMonotone ==
    [][/\ pc = "decay" =>
             \A c \in Cells(config) :
                IF is_food(world[c])
                THEN IF world[c].age + 1 >= decay_threshold(world[c], config)
                     THEN world'[c] = Empty
                     ELSE world'[c] = [world[c] EXCEPT !.age = world[c].age + 1]
                ELSE world'[c] = Empty
       /\ pc # "decay" =>
             \A c \in Cells(config) :
                (is_food(world[c]) /\ is_food(world'[c])) =>
                    \/ world'[c].age = world[c].age
                    \/ world'[c].age = 0 /\ pc \in {"idle", "deaths"}
       /\ \A c \in Cells(config) :
             is_food(world'[c]) => world'[c].age < decay_threshold(world'[c], config)
      ]_vars

\* A sweep is about to meet a meat cell that reaches its threshold and a
\* plant cell of the same age that does not reach its own.
C27_Witness ==
    /\ pc = "decay"
    /\ \E c, d \in Cells(config) :
          /\ is_food(world[c]) /\ world[c].is_meat
          /\ world[c].age + 1 = config.meat_decay_ticks
          /\ is_food(world[d]) /\ ~world[d].is_meat
          /\ world[d].age = world[c].age
          /\ world[d].age + 1 < config.plant_decay_ticks

C29_NetworkShapeOrError ==
    brain # NoBrain =>
        /\ (/\ nn_request.kind = "data"
            /\ \/ Len(nn_request.data.weights_ih)
                     # nn_request.data.hidden_size * nn_request.data.input_size
               \/ Len(nn_request.data.weights_ho)
                     # nn_request.data.output_size * nn_request.data.hidden_size)
              => brain.kind = "error"
        /\ brain.kind = "network" =>
              /\ Len(brain.weights_ih) = brain.hidden_size * brain.input_size
              /\ Len(brain.weights_ho) = brain.output_size * brain.hidden_size
              /\ Len(brain.hidden) = brain.hidden_size
              /\ Len(brain.output) = brain.output_size
              /\ Len(brain.softmax) = brain.output_size

\* Data whose input weights fit and whose output weights do not was
\* refused.
C29_Witness ==
    /\ nn_request.kind = "data"
    /\ brain.kind = "error"
    /\ nn_request.data.hidden_size * nn_request.data.input_size > 0
    /\ Len(nn_request.data.weights_ih)
          = nn_request.data.hidden_size * nn_request.data.input_size
    /\ Len(nn_request.data.weights_ho)
          # nn_request.data.output_size * nn_request.data.hidden_size

\* The creatures other than id that stand on a position.
OthersAt(id, p) ==
    {r \in DOMAIN creatures \ {id} : <<creatures[r].x, creatures[r].y>> = p}

\* C30: when the acting creature shares energy, has at least
\* energy_share_amount and a creature other than itself stands on one of
\* the cells above, below, left and right of it, then a creature on the
\* first such cell in that order gains min(energy_share_amount, max_energy
\* - its energy), the giver loses exactly energy_share_amount and no other
\* creature's energy changes; otherwise no creature's energy changes.
C30_ShareEnergyTransfers ==
    [][(pc = "dispatch" /\ action = "ShareEnergy") =>
          LET adjacent == ShareAdjacent(creatures[cur].x, creatures[cur].y)
              amount == config.energy_share_amount
              occupied == {i \in 1..4 : OthersAt(cur, adjacent[i]) # {}}
              energy(cs, id) == cs[id].metabolism.energy
          IN /\ DOMAIN creatures' = DOMAIN creatures
             /\ IF energy(creatures, cur) >= amount /\ occupied # {}
                THEN LET first == CHOOSE i \in occupied : \A j \in occupied : i <= j
                     IN \E r \in OthersAt(cur, adjacent[first]) :
                           /\ energy(creatures', cur) = energy(creatures, cur) - amount
                           /\ energy(creatures', r) = energy(creatures, r)
                                 + Min(amount, creatures[r].metabolism.max_energy
                                                   - energy(creatures, r))
                           /\ \A o \in DOMAIN creatures \ {cur, r} :
                                 energy(creatures', o) = energy(creatures, o)
                ELSE \A o \in DOMAIN creatures :
                        energy(creatures', o) = energy(creatures, o)]_vars

\* The attack list of a creature in an attack map, empty when it has none.
AttacksOn(m, id) == IF id \in DOMAIN m THEN m[id] ELSE << >>

\* C31: when the acting creature attacks, every other creature standing on
\* one of the four cells above, below, left and right of it loses
\* min(health, damage_per_strong_attack) health and gets the direction
\* pointing back to the attacker appended to its list in the attack map;
\* the attacker and every creature elsewhere, and their lists, are left as
\* they were, and no position changes.
C31_AttackHitsNeighbours ==
    [][(pc = "dispatch" /\ action = "Attack") =>
          LET adjacent == AttackAdjacent(creatures[cur].x, creatures[cur].y)
              hit(i) == OthersAt(cur, <<adjacent[i][1], adjacent[i][2]>>)
              victims == UNION {hit(i) : i \in 1..4}
              damage == config.damage_per_strong_attack
          IN /\ DOMAIN creatures' = DOMAIN creatures
             /\ creature_positions' = creature_positions
             /\ \A i \in 1..4 : \A v \in hit(i) :
                   /\ creatures'[v] =
                         [creatures[v] EXCEPT !.metabolism.health =
                             @ - Min(@, damage)]
                   /\ AttacksOn(attacks_this_tick', v)
                         = Append(AttacksOn(attacks_this_tick, v), adjacent[i][3])
             /\ \A o \in DOMAIN creatures \ victims :
                   /\ creatures'[o] = creatures[o]
                   /\ AttacksOn(attacks_this_tick', o) = AttacksOn(attacks_this_tick, o)
             /\ DOMAIN attacks_this_tick' = DOMAIN attacks_this_tick \cup victims]_vars

\* C32: a Move or Sprint of a creature whose energy is below the cost
\* leaves the world, the spatial index, the attack map and every creature
\* as they were, except that the mover's energy becomes 0; with enough
\* energy the mover's energy after the call is its energy minus the cost,
\* once, plus energy_per_food for every unit of food the call took from the
\* world (none on a strike), capped at max_energy.
C32_MoveCostAndInsufficientEnergy ==
    [][(pc = "dispatch" /\ action \in Moves \cup Sprints) =>
          LET m == creatures[cur].metabolism
              cost == move_cost
              eaten == total_food(world) - total_food(world')
          IN IF m.energy < cost
             THEN /\ creatures' = [creatures EXCEPT ![cur].metabolism.energy = 0]
                  /\ UNCHANGED <<world, creature_positions, attacks_this_tick>>
             ELSE /\ creatures'[cur].metabolism.energy =
                        Min(m.max_energy, m.energy - cost + eaten * config.energy_per_food)
                  /\ attacks_this_tick' # attacks_this_tick => eaten = 0]_vars

\* A creature with some energy, less than a sprint costs, is about to
\* sprint at a cell another creature stands on.
C32_Witness ==
    /\ pc = "dispatch"
    /\ action \in Sprints
    /\ creatures[cur].metabolism.energy > 0
    /\ creatures[cur].metabolism.energy < config.energy_cost_sprint
    /\ OthersAt(cur, MoveTarget(config, creatures[cur].x, creatures[cur].y, action)) # {}

\* The acting creature's Move or Sprint will be a step: it can pay and the
\* index shows nobody on the target cell.
WillStep ==
    /\ action \in Moves \cup Sprints
    /\ creatures[cur].metabolism.energy >= move_cost
    /\ creature_at(MoveTarget(config, creatures[cur].x, creatures[cur].y, action)[1],
                   MoveTarget(config, creatures[cur].x, creatures[cur].y, action)[2]) = None

\* C33: on Stay, on Rest and after a step, with a the food amount of the
\* cell the acting creature is then on (0 for an empty cell) and e its
\* energy once the action's own cost is paid: that cell is Empty
\* afterwards and no other cell changes, the world's total food drops by
\* a, the creature's energy is min(max_energy, e + a * energy_per_food),
\* and no other creature changes.
C33_EatingConsumesCell ==
    [][(pc = "dispatch" /\ (action \in {"Stay", "Rest"} \/ WillStep)) =>
          LET c == creatures[cur]
              pos == IF WillStep THEN MoveTarget(config, c.x, c.y, action)
                     ELSE <<c.x, c.y>>
              a == food_amount(world[pos])
              e == CASE action = "Stay" -> c.metabolism.energy
                     [] action = "Rest" ->
                          passive_heal(c.metabolism,
                              config.health_regen_rate * config.rest_healing_multiplier,
                              (config.health_regen_energy_cost
                                  * config.rest_energy_multiplier_num)
                                  \div config.rest_energy_multiplier_den).energy
                     [] OTHER -> c.metabolism.energy - move_cost
          IN /\ <<creatures'[cur].x, creatures'[cur].y>> = pos
             /\ world' = [world EXCEPT ![pos] = Empty]
             /\ total_food(world') = total_food(world) - a
             /\ creatures'[cur].metabolism.energy
                   = Min(c.metabolism.max_energy, e + a * config.energy_per_food)
             /\ \A o \in DOMAIN creatures \ {cur} : creatures'[o] = creatures[o]
             /\ DOMAIN creatures' = DOMAIN creatures]_vars

\* A creature is about to rest on a food cell that holds more energy than
\* it has room for.
C33_Witness ==
    /\ pc = "dispatch"
    /\ action = "Rest"
    /\ is_food(world[<<creatures[cur].x, creatures[cur].y>>])
    /\ creatures[cur].metabolism.energy
          + world[<<creatures[cur].x, creatures[cur].y>>].amount * config.energy_per_food
             > creatures[cur].metabolism.max_energy
    /\ creatures[cur].metabolism.energy < creatures[cur].metabolism.max_energy

\* A reproduction attempt is being made for the creature in process: by
\* the Reproduce action or by the check that follows every action.
ReproductionAttempt ==
    /\ \/ pc = "dispatch" /\ action = "Reproduce"
       \/ pc = "reproduce_check"
    /\ cur \in DOMAIN creatures

\* C34: a reproduction attempt for a parent whose energy is below
\* energy_cost_reproduce yields no offspring and changes nothing: the
\* parent (its energy and last_reproduce_tick included) and every other
\* creature, next_creature_id, total_births and the pending births are as
\* before.
C34_FailedReproductionChangesNothing ==
    [][(ReproductionAttempt
          /\ creatures[cur].metabolism.energy < config.energy_cost_reproduce)
         => UNCHANGED <<creatures, new_creatures, next_creature_id, total_births>>]_vars

\* A living parent that passes the minimum-energy and cooldown tests, has
\* room for an offspring and an empty neighbour cell, is being checked
\* with less energy than reproduction costs.
C34_Witness ==
    /\ pc = "reproduce_check"
    /\ cur \in DOMAIN creatures
    /\ is_alive(creatures[cur].metabolism)
    /\ can_reproduce(creatures[cur], config.min_reproduce_energy, tick,
                     config.reproduce_cooldown_ticks)
    /\ can_spawn_new_creature(config.max_population)
    /\ find_empty_neighbor(creatures[cur].x, creatures[cur].y) # {}
    /\ creatures[cur].metabolism.energy > 0
    /\ creatures[cur].metabolism.energy < config.energy_cost_reproduce

\* C35: the regeneration step of a tick never lowers the total food of the
\* world.
C35_RegenerationNeverLowersFood ==
    [][pc = "idle" => total_food(world') >= total_food(world)]_vars

\* C36: an iteration over a rectangle inside the grid yields only occupied
\* cells of the rectangle, each with the id the index holds there (the one
\* last set, none for a cleared cell) and none twice, and when next()
\* returns None it has yielded every occupied cell of the rectangle.
C36_IterBoxYieldsOccupiedCells ==
    LET OccupiedInBox ==
            {c \in Cells(config) :
                /\ box_args.x_min <= c[1] /\ c[1] <= box_args.x_max
                /\ box_args.y_min <= c[2] /\ c[2] <= box_args.y_max
                /\ creature_positions[c] # None}
    IN box_iter.kind # "none" =>
        /\ \A i \in 1..Len(yielded) :
              /\ <<yielded[i][1], yielded[i][2]>> \in OccupiedInBox
              /\ yielded[i][3] = creature_positions[<<yielded[i][1], yielded[i][2]>>]
        /\ \A i, j \in 1..Len(yielded) :
              i # j => <<yielded[i][1], yielded[i][2]>> # <<yielded[j][1], yielded[j][2]>>
        /\ box_iter.kind = "done" =>
              {<<yielded[i][1], yielded[i][2]>> : i \in 1..Len(yielded)} = OccupiedInBox

\* An iteration over one column that does not start at column 0 has ended
\* after yielding two cells, next to a column holding an occupied and a
\* cleared cell.
C36_Witness ==
    /\ box_iter.kind = "done"
    /\ box_args.x_min = 1 /\ box_args.x_max = 1
    /\ box_args.y_min = 0 /\ box_args.y_max = 1
    /\ Len(yielded) = 2
    /\ creature_positions[<<0, 0>>] # None
    /\ creature_positions[<<0, 1>>] = None

\* C37: in the initial state and at the end of every tick, every occupied
\* index entry names a creature of the population whose position is that
\* cell.
C37_IndexSound ==
    pc = "idle" =>
        \A c \in Cells(config) :
            creature_positions[c] # None =>
                /\ creature_positions[c] \in DOMAIN creatures
                /\ <<creatures[creature_positions[c]].x,
                     creatures[creature_positions[c]].y>> = c

\* A tick has ended after a death, with a creature of the population indexed
\* on its cell, a corpse cell the index no longer holds, and a creature of the
\* population that the index does not hold.
C37_Witness ==
    /\ pc = "idle"
    /\ tick >= 1
    /\ total_deaths >= 1
    /\ \E c \in Cells(config) : creature_positions[c] # None
    /\ \E c \in Cells(config) : creature_positions[c] = None /\ world[c].is_meat
    /\ \E id \in DOMAIN creatures :
          creature_positions[<<creatures[id].x, creatures[id].y>>] # id

\* C38: with initial_population >= 1, a tick that starts with a non-empty
\* population ends with a non-empty population: when every creature dies in
\* the tick, the corpses are in the buffer before the failsafe test and a
\* creature is resurrected, and the run loop never leaves through its
\* population == 0 test.
C38_NonEmptyPopulationSurvives ==
    config.initial_population >= 1 =>
        /\ pc \in {"idle", "rotate"} => DOMAIN creatures # {}
        /\ (pc = "failsafe" /\ DOMAIN creatures = {}) => recently_dead # << >>
        /\ run_pc # "done"

\* After a tick in which every creature died and one was resurrected, the
\* run loop has made its population test and gone on.
C38_Witness ==
    /\ config.initial_population >= 1
    /\ pc = "idle"
    /\ run_pc = "checkpoint"
    /\ since_log = 0
    /\ tick >= 1
    /\ total_deaths = tick * config.initial_population
    /\ total_resurrected >= 1
    /\ DOMAIN creatures # {}

\* C39: with reproduce_cooldown_ticks >= 1, a parent spawns only when at
\* least reproduce_cooldown_ticks ticks have passed since the tick of its
\* last spawn, which last_reproduce_tick holds: a spawn adds one offspring
\* and sets the parent's last_reproduce_tick to the current tick, nothing
\* else changes a creature's last_reproduce_tick, and a parent that has
\* spawned in the current tick does not spawn again in it, by its action or
\* by the check that follows.
C39_ReproductionCooldown ==
    [][LET Spawns == Len(new_creatures') > Len(new_creatures)
       IN config.reproduce_cooldown_ticks >= 1 =>
          /\ Spawns =>
                /\ pc \in {"dispatch", "reproduce_check"}
                /\ Len(new_creatures') = Len(new_creatures) + 1
                /\ tick - creatures[cur].last_reproduce_tick >= config.reproduce_cooldown_ticks
                /\ creatures'[cur].last_reproduce_tick = tick
          /\ \A id \in DOMAIN creatures \cap DOMAIN creatures' :
                creatures'[id].last_reproduce_tick # creatures[id].last_reproduce_tick
                    => (Spawns /\ id = cur)
          /\ (/\ pc \in {"dispatch", "reproduce_check"}
              /\ cur \in DOMAIN creatures
              /\ creatures[cur].last_reproduce_tick = tick)
                => ~Spawns]_vars

\* A parent that spawned by its Reproduce action in two consecutive ticks
\* stands before the check of the second one with everything but the
\* cooldown allowing another offspring.
C39_Witness ==
    /\ config.reproduce_cooldown_ticks >= 1
    /\ pc = "reproduce_check"
    /\ action = "Reproduce"
    /\ cur \in DOMAIN creatures
    /\ creatures[cur].offspring_count = 2
    /\ creatures[cur].last_reproduce_tick = tick
    /\ is_alive(creatures[cur].metabolism)
    /\ can_afford(creatures[cur].metabolism, config.min_reproduce_energy)
    /\ can_afford(creatures[cur].metabolism, config.energy_cost_reproduce)
    /\ can_spawn_new_creature(config.max_population)
    /\ find_empty_neighbor(creatures[cur].x, creatures[cur].y) # {}

====
